---- MODULE Spec2Model ----
(***************************************************************************)
(* A model of the AI-model gateway: the stream merger                      *)
(* (common/stream_utils.py), the tools/list pagination and the             *)
(* configuration authority of the MCP 2025 server (mcp/mcp2025_server.py), *)
(* the built-in configuration tools (mcp/tools/*.py), and the chat turn    *)
(* driven by the request router through a provider adapter                 *)
(* (router/request_router.py, adapters/openai_adapter.py,                  *)
(* gateway/websocket.py), and the stdio transport                          *)
(* (mcp/transports/stdio.py).                                              *)
(*                                                                         *)
(* Each subsystem has its own specification over the shared variable list: *)
(*   SpecMerge  - one turn of the stream merger on one scratch map         *)
(*   SpecList   - a client paging through tools/list                       *)
(*   SpecConfig - configuration tools and mutations with subscribers       *)
(*   SpecChat   - chat requests on one client connection                   *)
(*   SpecBroadcast - concurrent notification broadcasts to subscribers     *)
(*   SpecRpc    - a batch posted to the JSON-RPC endpoint                  *)
(*   SpecAdapter - one chat_completion stream of a provider adapter        *)
(*   SpecValidate - calls of the tool registry's execute_tool              *)
(*   SpecStdio  - the stdio transport reading stdin (SpecStdioFair: with   *)
(*                the event loop's fairness)                               *)
(***************************************************************************)
EXTENDS Integers, Sequences, FiniteSets, TLC

\* Python's None, for the fields that hold a string or None.
None == "<None>"

(***************************************************************************)
(* Variables                                                               *)
(***************************************************************************)
VARIABLES
    \* ---- stream merger (SpecMerge) ----
    provider,      \* the provider name passed to merge_tool_chunks
    scratch,       \* the per-turn scratch dict, in insertion order
    emitted,       \* every CompletedToolCall returned so far, in order
    keysSeen,      \* the scratch keys the fragments fed so far resolved to
    fedCount,      \* number of fragments fed so far
    scenario,      \* monitor of the fragmented-call scenario (Scenario F)
    namesFed,      \* whether a fragment of the turn carried a function name
    assembled,     \* what the provider's adapter makes of the same fragments
    mphase,        \* "feeding" | "finalized"
    \* ---- tools/list (SpecList) ----
    registry,      \* tool_registry.tools: the registered tools, in dict order
    listResp,      \* the last tools/list response
    visited,       \* the tools of the pages the client has received, in order
    pages,         \* number of pages the client has received
    walk,          \* "idle" | "walking" | "done" | "failed" | "probed"
    cursor,        \* params.cursor of the last tools/list request
    \* ---- configuration (SpecConfig) ----
    persisted,     \* the document held by the persistence layer
    config_cache,  \* MCP2025Server.config_cache: [loaded, doc], None until loaded
    sent,          \* notifications broadcast to the subscribers so far
    lastOp,        \* the last operation: its arguments, outcome and events
    repeated,      \* the status of the call before it when that was the same call, else ""
    opCount,       \* number of operations so far
    notified,      \* the methods the last operation broadcast, in order
    \* ---- chat turn (SpecChat) ----
    frames,        \* the frames sent on the client connection, in order
    request_id,    \* the chat request being served (0: none yet)
    turn,          \* "idle" | "streaming" | "done"
    chunk_count,   \* provider chunks the adapter has read in this turn
    accumulated_tool_calls,  \* the adapter's dict of tool calls, in insertion order
    outcome,       \* how the adapter's stream ended in this turn
    returned_calls,  \* the tool_calls of the element the adapter yielded
    follow_up_request,  \* the messages of the continuation request (None: not made)
    connected,     \* the client's WebSocket is open
    \* ---- notification broadcasts (SpecBroadcast) ----
    subscribers,   \* state.notification_subscribers
    everSubscribed,  \* the WebSocket objects that have connected so far
    ended,           \* the WebSocket objects whose endpoint handler has ended
    broken,        \* the WebSockets whose send_json raises
    tools_version, \* state.tools_version
    tool_names,    \* the keys of tool_registry.tools
    tasks,         \* the broadcasts, in the order they were invoked
    received,      \* what each WebSocket has been sent, in order
    \* ---- JSON-RPC endpoint (SpecRpc) ----
    batch,         \* the messages of the request body, in order
    position,      \* the message handle_jsonrpc's loop is at
    responses,     \* handle_jsonrpc's list of responses
    http,          \* "idle" | "handling" | "returned" | "parse_error" | "answered"
    single,        \* the request body when it is no array (NoBody: none yet)
    \* ---- adapter streams (SpecAdapter) ----
    provider_name,     \* self.provider_name of the adapter
    config_provider,   \* config["provider"] as the MCP server returns it
    gen,               \* chat_completion: "created" | "streaming" | "ended" | "raised"
    yielded,           \* the elements chat_completion has yielded
    last_error_type,   \* metadata.error_type of the error element yielded
    upstream_requests, \* requests made to the provider
    events_read,       \* chunks or events read from the provider stream
    tool_acc,          \* OpenAIAdapter's accumulated_tool_calls
    \* ---- tool registry validation (SpecValidate) ----
    entry_of_tool,   \* the registry's entry for the tool name of the calls
    call_arguments,  \* the arguments of the last call of execute_tool
    last_execution,  \* its answer, and whether the handler was invoked
    executions,      \* calls of execute_tool so far
    \* ---- stdio transport (SpecStdio) ----
    running,         \* StdioTransport.running
    reader_task,     \* the task of _read_stdin: "none" | "reading" | "done" | "cancelled"
    run_pc,          \* StdioServer.run: "created" | "check" | "sleep" | "shutdown" | "returned"
    lines_read,      \* lines read from stdin so far
    last_line,       \* the last line read (NoBody: none yet)
    written          \* what _handle_message wrote to stdout for that line

mergeVars == <<provider, scratch, emitted, keysSeen, fedCount, scenario, namesFed, assembled,
               mphase>>
listVars == <<registry, listResp, visited, pages, walk, cursor>>
configVars == <<persisted, config_cache, sent, lastOp, opCount, notified, repeated>>

chatVars == <<frames, request_id, turn, chunk_count, accumulated_tool_calls, outcome,
              returned_calls, follow_up_request, connected>>

bcastVars == <<subscribers, everSubscribed, ended, broken, tools_version, tool_names, tasks,
               received>>

rpcVars == <<batch, position, responses, http, single>>

adapterVars == <<provider_name, config_provider, gen, yielded, last_error_type,
                 upstream_requests, events_read, tool_acc>>

validateVars == <<entry_of_tool, call_arguments, last_execution, executions>>

stdioVars == <<running, reader_task, run_pc, lines_read, last_line, written>>

vars == <<mergeVars, listVars, configVars, chatVars, bcastVars, rpcVars, adapterVars, validateVars, stdioVars>>

\* What the actions of one subsystem leave alone.
exceptMerge == <<listVars, configVars, chatVars, bcastVars, rpcVars, adapterVars, validateVars, stdioVars>>
exceptList == <<mergeVars, configVars, chatVars, bcastVars, rpcVars, adapterVars, validateVars, stdioVars>>
exceptConfig == <<mergeVars, listVars, chatVars, bcastVars, rpcVars, adapterVars, validateVars, stdioVars>>
exceptChat == <<mergeVars, listVars, configVars, bcastVars, rpcVars, adapterVars, validateVars, stdioVars>>
exceptBcast == <<mergeVars, listVars, configVars, chatVars, rpcVars, adapterVars, validateVars, stdioVars>>
exceptRpc == <<mergeVars, listVars, configVars, chatVars, bcastVars, adapterVars, validateVars, stdioVars>>
exceptAdapter == <<mergeVars, listVars, configVars, chatVars, bcastVars, rpcVars, validateVars, stdioVars>>
exceptValidate == <<mergeVars, listVars, configVars, chatVars, bcastVars, rpcVars, adapterVars, stdioVars>>
exceptStdio == <<mergeVars, listVars, configVars, chatVars, bcastVars, rpcVars, adapterVars, validateVars>>

(***************************************************************************)
(* Stream merger: common/stream_utils.py                                   *)
(***************************************************************************)

\* Bound: fragments fed to the merger in one turn.
MaxFrags == 3

MergeProviders == {"openai", "openrouter", "anthropic", "gemini"}

\* The text the k-th fragment of a turn carries when it carries arguments.
ArgText(k) == CASE k = 1 -> "a" [] k = 2 -> "b" [] k = 3 -> "c" [] OTHER -> "d"

\* A tool-call fragment as the provider's SDK hands it over.  index is the
\* decimal text of the integer index, or None.
FragIds == {None, "call_1"}
FragIndexes == {None, "0"}
FragNames == {"", "get_weather"}

\* The inputs vary only what the merger reads: is_final is read for
\* anthropic only, finish_reason for openai and openrouter only, and index
\* only when the fragment has no id.
Fragments(p, k) ==
    { [id |-> i, index |-> x, name |-> n, arguments |-> a,
       is_final |-> (p = "anthropic" /\ t),
       finish_reason |-> IF p \in {"openai", "openrouter"} /\ t THEN "stop" ELSE None] :
        i \in FragIds, x \in FragIndexes, n \in FragNames,
        a \in {"", ArgText(k)}, t \in BOOLEAN } \
    { f \in [id : FragIds, index : FragIndexes, name : FragNames,
             arguments : {"", ArgText(k)}, is_final : BOOLEAN,
             finish_reason : {None, "stop"}] : f.id # None /\ f.index # None }

\* A scratch key: a string (an id, or the synthesized key) or an int index.
StrKey(s) == [isIndex |-> FALSE, s |-> s]
IdxKey(s) == [isIndex |-> TRUE, s |-> s]
NoKey == [isIndex |-> FALSE, s |-> None]

_is_call_final(tc, p) ==
    IF p = "anthropic" THEN tc.is_final
    ELSE IF p = "gemini" THEN TRUE
    ELSE tc.finish_reason # None

\* key = getattr(tc, "id", None) or getattr(tc, "index", None)
IdOrIndexKey(tc) ==
    IF tc.id # None /\ tc.id # "" THEN StrKey(tc.id)
    ELSE IF tc.index # None THEN IdxKey(tc.index)
    ELSE NoKey

ScratchKeys(sc) == { sc[i].key : i \in 1..Len(sc) }

ScratchPos(sc, key) == CHOOSE i \in 1..Len(sc) : sc[i].key = key

\* A merger that files every id-less fragment of an OpenAI-class provider
\* under the synthesized key instead of continuing the entry in progress.
FragmentKey_NoContinue(tc, sc, p) ==
    LET key == IdOrIndexKey(tc) IN
    IF key # NoKey THEN key
    ELSE IF p \in {"openai", "openrouter"} THEN StrKey("tool_call_0") ELSE NoKey

\* The key the fragment is filed under, NoKey when the fragment is skipped.
FragmentKey(tc, sc, p) ==
    LET key == IdOrIndexKey(tc) IN
    IF key # NoKey THEN key
    ELSE IF p \in {"openai", "openrouter"}
         THEN IF Len(sc) > 0 THEN sc[1].key ELSE StrKey("tool_call_0")
         ELSE NoKey

\* scratch.setdefault(key, {"id": getattr(tc, "id", "") or f"auto_{key}", ...})
NewEntry(tc, key) ==
    [key |-> key,
     id |-> IF tc.id # None /\ tc.id # "" THEN tc.id ELSE "auto_" \o key.s,
     name |-> "", arguments |-> ""]

SetDefault(sc, tc, key) ==
    IF key \in ScratchKeys(sc) THEN sc ELSE Append(sc, NewEntry(tc, key))

Accumulate(entry, tc) ==
    [entry EXCEPT !.name = IF tc.name # "" THEN tc.name ELSE @,
                  !.arguments = IF tc.arguments # "" THEN @ \o tc.arguments ELSE @]

\* A completed call that hands the accumulated name over as it is.
CompletedToolCall_RawName(entry) ==
    [id |-> entry.id, name |-> entry.name, arguments |-> entry.arguments]

CompletedToolCall(entry) ==
    [id |-> entry.id,
     name |-> IF entry.name # "" THEN entry.name ELSE "unknown_function",
     arguments |-> entry.arguments]

RemoveAt(sc, i) == SubSeq(sc, 1, i - 1) \o SubSeq(sc, i + 1, Len(sc))

\* One iteration of the loop of merge_tool_chunks over delta_tool_calls.
MergeOne(tc, st, p) ==
    LET key == FragmentKey(tc, st.scratch, p) IN
    IF key = NoKey THEN st
    ELSE LET sc1 == SetDefault(st.scratch, tc, key)
             i == ScratchPos(sc1, key)
             sc2 == [sc1 EXCEPT ![i] = Accumulate(@, tc)]
         IN IF _is_call_final(tc, p)
            THEN [scratch |-> RemoveAt(sc2, i),
                  completed |-> Append(st.completed, CompletedToolCall(sc2[i]))]
            ELSE [scratch |-> sc2, completed |-> st.completed]

RECURSIVE MergeLoop(_, _, _)
MergeLoop(delta, st, p) ==
    IF delta = <<>> THEN st
    ELSE MergeLoop(Tail(delta), MergeOne(Head(delta), st, p), p)

\* merge_tool_chunks(delta_tool_calls, scratch, provider=p): the scratch after
\* the call and the list it returns.
merge_tool_chunks(delta, sc, p) ==
    MergeLoop(delta, [scratch |-> sc, completed |-> <<>>], p)

\* finalize_remaining_calls(scratch): every entry left, in insertion order.
finalize_remaining_calls(sc) ==
    [scratch |-> <<>>,
     completed |-> [i \in 1..Len(sc) |-> CompletedToolCall(sc[i])]]

\* Monitor of Scenario F: a first fragment with an id and a name, then
\* fragments that carry no id, no index, no name and no terminal marker,
\* then one such fragment with a non-null finish_reason.
\*   phase: "start" -> "open" -> "closed", or "off" once the turn departs
\*   from the scenario; args is the concatenation of the argument text fed.
ScenarioStart == [phase |-> "start", id |-> None, name |-> "", args |-> ""]
ScenarioOff == [phase |-> "off", id |-> None, name |-> "", args |-> ""]

ScenarioStep(sn, tc) ==
    LET bare == tc.id = None /\ tc.index = None /\ tc.name = "" /\ ~tc.is_final IN
    IF sn.phase = "start"
    THEN IF tc.id # None /\ tc.name # "" /\ tc.finish_reason = None /\ ~tc.is_final
         THEN [phase |-> "open", id |-> tc.id, name |-> tc.name, args |-> tc.arguments]
         ELSE ScenarioOff
    ELSE IF sn.phase = "open" /\ bare
    THEN [sn EXCEPT !.phase = IF tc.finish_reason # None THEN "closed" ELSE "open",
                    !.args = @ \o tc.arguments]
    ELSE ScenarioOff

RECURSIVE ScenarioLoop(_, _)
ScenarioLoop(sn, delta) ==
    IF delta = <<>> THEN sn ELSE ScenarioLoop(ScenarioStep(sn, Head(delta)), Tail(delta))

RECURSIVE KeysOf(_, _, _)
KeysOf(delta, sc, p) ==
    IF delta = <<>> THEN {}
    ELSE LET k == FragmentKey(Head(delta), sc, p)
             st == MergeOne(Head(delta), [scratch |-> sc, completed |-> <<>>], p)
         IN (IF k = NoKey THEN {} ELSE {k}) \cup KeysOf(Tail(delta), st.scratch, p)

\* The adapters of the OpenAI class on the fragments the merger is fed: the
\* accumulated_tool_calls dict of the OpenAI adapter in insertion order, the
\* tool_calls lists yielded, and whether the loop was left at a finish
\* reason.  Every fragment has its function object; a name or argument text
\* of None is "".  The chunk's finish reason is the fragments' marker.
NoneAssembled == [acc |-> <<>>, yielded |-> <<>>, done |-> FALSE]

ToolCallDict(id, name, arguments) == [id |-> id, name |-> name, arguments |-> arguments]

AccPos(acc, id) == CHOOSE i \in 1..Len(acc) : acc[i].id = id

\* OpenAIAdapter: one round of "for tool_call in delta.tool_calls"; the dict
\* is keyed by tool_call.id, None included.
AccumulateCall(acc, tc) ==
    IF \E i \in 1..Len(acc) : acc[i].id = tc.id
    THEN [acc EXCEPT ![AccPos(acc, tc.id)].arguments = @ \o tc.arguments]
    ELSE Append(acc, ToolCallDict(tc.id, tc.name, tc.arguments))

RECURSIVE AccumulateCalls(_, _)
AccumulateCalls(acc, delta) ==
    IF delta = <<>> THEN acc
    ELSE AccumulateCalls(AccumulateCall(acc, Head(delta)), Tail(delta))

ChunkFinishes(delta) == \E i \in 1..Len(delta) : delta[i].finish_reason # None

\* OpenAIAdapter: the loop body for one chunk, given the dict after it.
OpenAIChunk(a, acc, delta) ==
    [acc |-> acc,
     yielded |-> IF ChunkFinishes(delta) /\ acc # <<>> THEN Append(a.yielded, acc)
                 ELSE a.yielded,
     done |-> ChunkFinishes(delta)]

\* OpenRouterAdapter: the loop body for one chunk; the tool calls of the
\* delta are yielded as they are.
OpenRouterChunk(a, delta) ==
    [acc |-> a.acc,
     yielded |-> IF delta # <<>>
                 THEN Append(a.yielded,
                             [i \in 1..Len(delta) |->
                                 ToolCallDict(delta[i].id, delta[i].name, delta[i].arguments)])
                 ELSE a.yielded,
     done |-> ChunkFinishes(delta)]

AdapterChunk(a, delta, p) ==
    IF a.done THEN a
    ELSE IF p = "openai" THEN OpenAIChunk(a, AccumulateCalls(a.acc, delta), delta)
    ELSE IF p = "openrouter" THEN OpenRouterChunk(a, delta)
    ELSE a

MergeInit ==
    /\ provider \in MergeProviders
    /\ scratch = <<>>
    /\ emitted = <<>>
    /\ keysSeen = {}
    /\ fedCount = 0
    /\ scenario = ScenarioStart
    /\ namesFed = FALSE
    /\ assembled = NoneAssembled
    /\ mphase = "feeding"

\* The merger at rest, in the specifications of the other subsystems.
MergeIdle ==
    /\ provider = "openai"
    /\ scratch = <<>>
    /\ emitted = <<>>
    /\ keysSeen = {}
    /\ fedCount = 0
    /\ scenario = ScenarioStart
    /\ namesFed = FALSE
    /\ assembled = NoneAssembled
    /\ mphase = "feeding"

\* The adapter passes one streamed chunk's delta.tool_calls to the merger.
MergeCall(delta) ==
    /\ mphase = "feeding"
    /\ fedCount + Len(delta) <= MaxFrags
    /\ LET r == merge_tool_chunks(delta, scratch, provider) IN
       /\ scratch' = r.scratch
       /\ emitted' = emitted \o r.completed
    /\ keysSeen' = keysSeen \cup KeysOf(delta, scratch, provider)
    /\ fedCount' = fedCount + Len(delta)
    /\ scenario' = ScenarioLoop(scenario, delta)
    /\ namesFed' = (namesFed \/ \E i \in 1..Len(delta) : delta[i].name # "")
    /\ assembled' = AdapterChunk(assembled, delta, provider)
    /\ UNCHANGED <<provider, mphase>>
    /\ UNCHANGED exceptMerge

\* A chunk whose delta carries one tool-call fragment, or none (the loop
\* runs over "delta_tool_calls or []").
MergeCallOne ==
    \/ MergeCall(<<>>)
    \/ \E tc \in Fragments(provider, fedCount + 1) : MergeCall(<<tc>>)

\* A chunk whose delta carries two tool-call fragments.
MergeCallTwo ==
    \E t1 \in Fragments(provider, fedCount + 1), t2 \in Fragments(provider, fedCount + 2) :
        /\ t1.id # None /\ t2.id = None /\ t2.name = ""
        /\ MergeCall(<<t1, t2>>)

\* The stream has ended: the caller finalizes what is left.
FinalizeRemaining ==
    /\ mphase = "feeding"
    /\ LET r == finalize_remaining_calls(scratch) IN
       /\ scratch' = r.scratch
       /\ emitted' = emitted \o r.completed
    /\ mphase' = "finalized"
    /\ UNCHANGED <<provider, keysSeen, fedCount, scenario, namesFed, assembled>>
    /\ UNCHANGED exceptMerge

MergeNext == MergeCallOne \/ MergeCallTwo \/ FinalizeRemaining


(***************************************************************************)
(* tools/list pagination: mcp/mcp2025_server.py                            *)
(***************************************************************************)

\* Bound: number of tools in the registry.
MaxTools == 120

DEFAULT_PAGE_SIZE == 50

INVALID_PARAMS == -32602

\* The integers a cursor of the model can denote.
CursorRange == (0 - MaxTools)..(MaxTools + DEFAULT_PAGE_SIZE)

\* str(end_index)
str(n) == ToString(n)

\* int(params.cursor): the integer whose decimal text is the cursor, or a
\* ValueError when the text is not one.
int(c) ==
    LET S == { n \in CursorRange : ToString(n) = c } IN
    IF S = {} THEN [ok |-> FALSE, n |-> 0]
    ELSE [ok |-> TRUE, n |-> CHOOSE n \in S : TRUE]

Min(a, b) == IF a < b THEN a ELSE b
Max(a, b) == IF a > b THEN a ELSE b

\* A slice bound as Python resolves it: negative counts from the end, and
\* the result is clamped to 0..len.
SliceBound(i, len) == IF i < 0 THEN Max(i + len, 0) ELSE Min(i, len)

\* seq[start:end]
PySlice(seq, start, end) ==
    SubSeq(seq, SliceBound(start, Len(seq)) + 1, SliceBound(end, Len(seq)))

\* A next_cursor that is still issued when the page ends the list.
NextCursor_Inclusive(end_index, len) ==
    IF end_index <= len THEN str(end_index) ELSE None

\* next_cursor = str(end_index) if end_index < len(mcp_tools) else None
NextCursor(end_index, len) ==
    IF end_index < len THEN str(end_index) ELSE None

\* _handle_tools_list for a request whose params.cursor is c (None: absent).
_handle_tools_list(c, mcp_tools) ==
    LET parsed == IF c # None /\ c # "" THEN int(c) ELSE [ok |-> TRUE, n |-> 0]
        start_index == parsed.n
        end_index == start_index + DEFAULT_PAGE_SIZE
    IN IF ~parsed.ok
       THEN [error |-> INVALID_PARAMS, tools |-> <<>>, nextCursor |-> None]
       ELSE [error |-> 0,
             tools |-> PySlice(mcp_tools, start_index, end_index),
             nextCursor |-> NextCursor(end_index, Len(mcp_tools))]

NoResponse == [error |-> 0, tools |-> <<>>, nextCursor |-> None]

\* The registry holds any number of tools; a tool is identified by its
\* position of registration.
ListInit ==
    /\ \E n \in 0..MaxTools : registry = [i \in 1..n |-> i]
    /\ listResp = NoResponse
    /\ visited = <<>>
    /\ pages = 0
    /\ walk = "idle"
    /\ cursor = None

ListIdle ==
    /\ registry = <<>>
    /\ listResp = NoResponse
    /\ visited = <<>>
    /\ pages = 0
    /\ walk = "idle"
    /\ cursor = None

\* The client receives the response to the request it sent with cursor c.
Receive(c) ==
    LET r == _handle_tools_list(c, registry) IN
    /\ listResp' = r
    /\ visited' = visited \o r.tools
    /\ pages' = pages + 1
    /\ walk' = IF r.error # 0 THEN "failed"
               ELSE IF r.nextCursor = None THEN "done" ELSE "walking"
    /\ cursor' = c
    /\ UNCHANGED registry
    /\ UNCHANGED exceptList

\* tools/list with no cursor.
ToolsListFirst ==
    /\ walk = "idle"
    /\ Receive(None)

\* tools/list with the nextCursor of the previous page.
ToolsListFollow ==
    /\ walk = "walking"
    /\ Receive(listResp.nextCursor)

\* Cursors a client can make up itself.
ForeignCursors == {"abc", "1x", "-1", "-5", "-120", "0", "7", "50", "170"}

\* tools/list with a cursor that no response of the server handed out.
ToolsListForeign ==
    /\ walk = "idle"
    /\ \E c \in ForeignCursors :
          /\ listResp' = _handle_tools_list(c, registry)
          /\ cursor' = c
    /\ walk' = "probed"
    /\ UNCHANGED <<registry, visited, pages>>
    /\ UNCHANGED exceptList

ListNext == ToolsListFirst \/ ToolsListFollow \/ ToolsListForeign

\* C6: following nextCursor from no cursor until it is null visits every
\* tool exactly once in registry order, with at most 50 tools per page, and
\* nextCursor is non-null exactly when tools remain after the page.
C6_PaginationCovers ==
    /\ walk # "failed"
    /\ Len(listResp.tools) <= 50
    /\ visited = SubSeq(registry, 1, Len(visited))
    /\ walk \in {"walking", "done"} =>
          ((listResp.nextCursor # None) <=> (Len(visited) < Len(registry)))
    /\ walk = "done" => visited = registry

\* A walk over more than a hundred tools has ended on its third page.
C6_Witness ==
    /\ walk = "done"
    /\ Len(registry) > 100
    /\ pages = 3
    /\ Len(listResp.tools) < 50

\* The cursor is the decimal form of a non-negative integer.
IsStartIndex(c) == \E n \in 0..(MaxTools + DEFAULT_PAGE_SIZE) : str(n) = c

\* C20: a tools/list request whose cursor is not the decimal form of a
\* non-negative integer is answered with error -32602 and with no tools.
C20_InvalidCursorRejected ==
    (walk = "probed" /\ ~IsStartIndex(cursor)) =>
        /\ listResp.error = INVALID_PARAMS
        /\ listResp.tools = <<>>

(***************************************************************************)
(* Configuration authority: mcp/mcp2025_server.py, mcp/parameter_schemas.py *)
(***************************************************************************)

\* Numbers are held in tenths: 7 is 0.7, 40960 is 4096.
Num(n) == [k |-> "num", n |-> n, s |-> ""]
Str(t) == [k |-> "str", n |-> 0, s |-> t]
NoneVal == [k |-> "none", n |-> 0, s |-> ""]
\* The key is not in the dict.
Absent == [k |-> "absent", n |-> 0, s |-> ""]

\* PopularModels.PHASE_1_MODELS
PHASE_1_MODELS(p) ==
    CASE p = "openai" -> <<"gpt-4o-mini", "gpt-4o", "o1-preview", "o1-mini">>
      [] p = "anthropic" -> <<"claude-3-5-sonnet-20241022", "claude-3-5-haiku-20241022">>
      [] p = "gemini" -> <<"gemini-1.5-flash", "gemini-1.5-pro">>
      [] p = "openrouter" -> <<"anthropic/claude-3-sonnet", "openai/gpt-4o", "google/gemini-1.5-pro">>
      [] OTHER -> <<>>

\* get_available_providers: the keys of PHASE_1_MODELS
get_available_providers == {"openai", "anthropic", "gemini", "openrouter"}

\* The parameters the model follows; the other parameters of the schemas
\* (penalties, seed, stop, top_k, ...) are stored and read like top_p.
ParamNames == {"temperature", "max_tokens", "top_p"}

\* The "model" entry of each provider record; no operation of the server
\* can write it ("model" is in no schema), so it is not part of the document.
ModelOf(p) ==
    CASE p = "openai" -> "gpt-4o-mini"
      [] p = "anthropic" -> "claude-3-5-sonnet-20241022"
      [] p = "gemini" -> "gemini-1.5-flash"
      [] OTHER -> "anthropic/claude-3-sonnet"

\* The document a first read materializes: one record per provider.
DefaultDoc ==
    [active |-> "openai",
     models |-> [p \in get_available_providers |->
        [temperature |-> Num(7),
         max_tokens |-> IF p = "openai" THEN NoneVal ELSE Num(40960),
         top_p |-> Absent]]]

Range(lo, hi, type, dflt) ==
    [type |-> type, hasRange |-> TRUE, min_value |-> lo, max_value |-> hi, default |-> dflt]

OPENAI_STANDARD ==
    [temperature |-> Range(0, 20, "float", Num(10)),
     max_tokens |-> Range(10, 40960, "integer", NoneVal),
     top_p |-> Range(0, 10, "float", Num(10))]

ANTHROPIC_CLAUDE ==
    [temperature |-> Range(0, 10, "float", Num(10)),
     max_tokens |-> Range(10, 40960, "integer", Num(40960)),
     top_p |-> Range(0, 10, "float", NoneVal)]

GOOGLE_GEMINI ==
    [temperature |-> Range(0, 10, "float", Num(10)),
     top_p |-> Range(0, 10, "float", NoneVal)]

_get_conservative_schema ==
    [temperature |-> Range(0, 10, "float", Num(7)),
     max_tokens |-> Range(10, 20480, "integer", Num(20480))]

\* OPENAI_REASONING has max_completion_tokens only.
OPENAI_REASONING == [x \in {} |-> Absent]

\* re.match(prefix, model) for the three literal prefixes
_get_openrouter_schema(model) ==
    CASE model \in {"anthropic/claude-3-sonnet"} -> ANTHROPIC_CLAUDE
      [] model \in {"openai/gpt-4o"} -> OPENAI_STANDARD
      [] model \in {"google/gemini-1.5-pro"} -> GOOGLE_GEMINI
      [] OTHER -> _get_conservative_schema

get_model_schema(p, model) ==
    CASE p = "openai" ->
            IF model \in {"o1-preview", "o1-mini"} THEN OPENAI_REASONING ELSE OPENAI_STANDARD
      [] p = "anthropic" -> ANTHROPIC_CLAUDE
      [] p = "gemini" -> GOOGLE_GEMINI
      [] p = "openrouter" -> _get_openrouter_schema(model)
      [] OTHER -> _get_conservative_schema

\* _validate_parameter_value: the value to store, or a ValueError.  The
\* type is checked for "integer", "number" and "string" only; the range
\* only for numbers.
_validate_parameter_value(value, constraint) ==
    LET isNum == value.k = "num"
        typeError ==
            \/ constraint.type = "integer" /\ ~(isNum /\ value.n % 10 = 0)
            \/ constraint.type = "number" /\ ~isNum
            \/ constraint.type = "string" /\ value.k # "str"
        rangeError ==
            /\ constraint.hasRange /\ isNum
            /\ (value.n < constraint.min_value \/ value.n > constraint.max_value)
    IN [ok |-> ~typeError /\ ~rangeError, value |-> value]

\* The server state the operations below thread through:
\*   loaded, cache  - self.config_cache (None until loaded)
\*   persisted      - the document held by the persistence layer
\*   events         - what the running handler did to persistence and subscribers
\*   methods        - the methods of the notifications the running handler sent
\*   sent           - notifications broadcast so far

\* config_persistence.load_config(): the persisted document.
load_config(st) == st.persisted

\* config_persistence.save_config(doc): writes the whole document and
\* returns True, or writes nothing and returns False (disk = FALSE).
save_config(st, disk) ==
    IF disk
    THEN [st EXCEPT !.persisted = st.cache, !.events = Append(@, "save_ok")]
    ELSE [st EXCEPT !.events = Append(@, "save_failed")]

\* if self.config_cache is None: self.config_cache = load_config()
LoadIfNone(st) ==
    IF st.loaded THEN st ELSE [st EXCEPT !.loaded = TRUE, !.cache = load_config(st)]

\* _notify_* -> _send_notification_to_subscribers; the event records whether
\* the document in memory is the persisted one at that moment.
_send_notification_to_subscribers(st, method) ==
    [st EXCEPT !.events = Append(@, IF st.loaded /\ st.cache = st.persisted
                                    THEN "notify" ELSE "notify_unsaved"),
               !.methods = Append(@, method),
               !.sent = @ + 1]

\* The dict get_active_provider_config builds from a document.
ActiveRecord(doc) ==
    LET m == doc.models[doc.active] IN
    [provider |-> doc.active,
     model |-> ModelOf(doc.active),
     temperature |-> IF m.temperature = Absent THEN Num(7) ELSE m.temperature,
     max_tokens |-> IF m.max_tokens = Absent THEN NoneVal ELSE m.max_tokens]

WithActiveRecord(s1) == [st |-> s1, config |-> ActiveRecord(s1.cache)]

get_active_provider_config(st) == WithActiveRecord(LoadIfNone(st))

\* current_config.get(param_name, constraint.default)
CurrentValue(config, param_name, default) ==
    IF param_name \in {"temperature", "max_tokens"} THEN config[param_name] ELSE default

\* get_parameter_constraints(provider): the schema of (provider, active
\* model) with the current values read from the active provider's record.
ConstraintsOf(schema, config) ==
    [x \in DOMAIN schema |->
        [type |-> schema[x].type, hasRange |-> schema[x].hasRange,
         min_value |-> schema[x].min_value, max_value |-> schema[x].max_value,
         default |-> schema[x].default,
         current_value |-> CurrentValue(config, x, schema[x].default)]]

WithConstraints(r, p) ==
    [st |-> r.st, constraints |-> ConstraintsOf(get_model_schema(p, r.config.model), r.config)]

get_parameter_constraints(st, p) == WithConstraints(get_active_provider_config(st), p)

\* self.config_cache["provider"]["models"][provider][param_name] = value
WriteParam(st, p, param_name, value) ==
    [st EXCEPT !.cache.models[p][param_name] = value]

\* A mutation that notifies whatever save_config returned.
SaveThenNotify_Always(st, disk, method) ==
    [st |-> _send_notification_to_subscribers(save_config(st, disk), method), ok |-> disk]

\* Persist, then notify on success; ok = FALSE stands for the raised error.
SaveThenNotify(st, disk, method) ==
    LET s1 == save_config(st, disk) IN
    IF disk THEN [st |-> _send_notification_to_subscribers(s1, method), ok |-> TRUE]
    ELSE [st |-> s1, ok |-> FALSE]

\* set_provider_parameter after the constraints c were fetched.
SetValidated(c, p, param_name, value, disk) ==
    IF param_name \notin DOMAIN c.constraints THEN [st |-> c.st, ok |-> FALSE]
    ELSE IF ~_validate_parameter_value(value, c.constraints[param_name]).ok
    THEN [st |-> c.st, ok |-> FALSE]
    ELSE SaveThenNotify(
             WriteParam(LoadIfNone(c.st), p, param_name,
                        _validate_parameter_value(value, c.constraints[param_name]).value),
             disk, "configuration/changed")

set_provider_parameter(st, p, param_name, value, disk) ==
    IF p \notin get_available_providers THEN [st |-> st, ok |-> FALSE]
    ELSE SetValidated(get_parameter_constraints(st, p), p, param_name, value, disk)

switch_active_provider(st, p, disk) ==
    IF p \notin get_available_providers THEN [st |-> st, ok |-> FALSE]
    ELSE SaveThenNotify([LoadIfNone(get_active_provider_config(st).st) EXCEPT !.cache.active = p],
                        disk, "configuration/provider_switched")

\* The order in which the schema dicts list the parameters.
ParamOrder == <<"temperature", "max_tokens", "top_p">>

\* A round that writes a value depending on the one it finds: the default
\* where another value is stored, and no value where the default is.
WriteDefault_Toggling(acc, p, constraints, x) ==
    IF x \in DOMAIN constraints /\ constraints[x].default # NoneVal
    THEN [st |-> WriteParam(acc.st, p, x,
                            IF constraints[x].current_value = constraints[x].default
                            THEN NoneVal ELSE constraints[x].default),
          success_count |-> acc.success_count + 1]
    ELSE acc

\* One round of "for param_name, default_value in defaults.items()".
WriteDefault(acc, p, constraints, x) ==
    IF x \in DOMAIN constraints /\ constraints[x].default # NoneVal
    THEN [st |-> WriteParam(acc.st, p, x, constraints[x].default),
          success_count |-> acc.success_count + 1]
    ELSE acc

WriteDefaults(st, p, constraints) ==
    WriteDefault(
        WriteDefault(
            WriteDefault([st |-> st, success_count |-> 0], p, constraints, ParamOrder[1]),
            p, constraints, ParamOrder[2]),
        p, constraints, ParamOrder[3])

\* if success_count > 0: save, then notify
SaveDefaults(w, disk) ==
    IF w.success_count > 0
    THEN SaveThenNotify(w.st, disk, "configuration/reset")
    ELSE [st |-> w.st, ok |-> FALSE]

ResetWith(c, p, disk) == SaveDefaults(WriteDefaults(LoadIfNone(c.st), p, c.constraints), disk)

reset_to_defaults(st, p, disk) ==
    IF p \notin get_available_providers THEN [st |-> st, ok |-> FALSE]
    ELSE ResetWith(get_parameter_constraints(st, p), p, disk)

(***************************************************************************)
(* Built-in configuration tools: mcp/tools/*.py, mcp/tool_registry.py      *)
(***************************************************************************)

SeqRange(q) == { q[i] : i \in 1..Len(q) }

ProviderOrder == <<"openai", "anthropic", "gemini", "openrouter">>

\* A switch_provider that performs the switch without looking at confirm.
SwitchProviderTool_NoGate(st, a, disk) ==
    [st |-> switch_active_provider(st, a.provider, disk).st, status |-> "success"]

\* The answer of execute once set_provider_parameter(provider, "model", ...)
\* returned or raised into the tool's except clause.
ModelSet(sp) == [st |-> sp.st, status |-> IF sp.ok THEN "success" ELSE "error"]

\* "if success:" with the optional update of the model.
AfterSwitch(sw, a, disk) ==
    IF ~sw.ok THEN [st |-> sw.st, status |-> "error"]
    ELSE IF a.model = None THEN [st |-> sw.st, status |-> "success"]
    ELSE ModelSet(set_provider_parameter(sw.st, a.provider, "model", Str(a.model), disk))

\* SwitchProviderTool.execute after the current configuration r was read.
SwitchFrom(r, a, disk) ==
    IF r.config.provider = a.provider /\ a.model = None
    THEN [st |-> r.st, status |-> "no_change"]
    ELSE IF a.provider \notin get_available_providers
    THEN [st |-> r.st, status |-> "error"]
    ELSE IF a.model # None /\ a.model \notin SeqRange(PHASE_1_MODELS(a.provider))
    THEN [st |-> r.st, status |-> "error"]
    ELSE IF a.model = None /\ PHASE_1_MODELS(a.provider) = <<>>
    THEN [st |-> r.st, status |-> "error"]
    ELSE IF a.confirm # "true"
    THEN [st |-> r.st, status |-> "confirmation_required"]
    ELSE AfterSwitch(switch_active_provider(r.st, a.provider, disk), a, disk)

\* SwitchProviderTool.execute; a = [provider, confirm, model], confirm one
\* of "absent", "false", "true" and model None when absent.
SwitchProviderTool(st, a, disk) == SwitchFrom(get_active_provider_config(st), a, disk)

\* changes[param_name] for the parameters looked at: the default and whether
\* the current value differs from it.
ChangesOf(c, parameters) ==
    [x \in (IF parameters # <<>> THEN DOMAIN c \cap SeqRange(parameters) ELSE DOMAIN c) |->
        [default |-> c[x].default, will_change |-> c[x].current_value # c[x].default]]

\* reset_details[provider]
ResetChanges(st, p, parameters) ==
    ChangesOf(get_parameter_constraints(st, p).constraints, parameters)

\* One round of "for param_name, default_value in params_to_reset.items():
\* await set_provider_parameter(provider, param_name, default_value)"; the
\* first error ends the loop (acc.ok = FALSE).
ResetOneParam(acc, p, changes, x, disk) ==
    IF ~acc.ok \/ x \notin DOMAIN changes THEN acc
    ELSE IF ~changes[x].will_change THEN acc
    ELSE set_provider_parameter(acc.st, p, x, changes[x].default, disk)

\* The rounds run one after the other, each on the result of the last.
ResetParams(st, p, changes, disk) ==
    ResetOneParam(
        ResetOneParam(
            ResetOneParam([st |-> st, ok |-> TRUE], p, changes, ParamOrder[1], disk),
            p, changes, ParamOrder[2], disk),
        p, changes, ParamOrder[3], disk)

\* error_count += 1 when the provider's reset raised.
CountError(acc, r) ==
    [st |-> r.st, error_count |-> acc.error_count + (IF r.ok THEN 0 ELSE 1)]

\* One round of "for provider, changes in reset_details.items():"; an
\* error of the provider's reset is counted and the loop goes on.
ResetOneProvider(acc, p, details, parameters, disk) ==
    IF p \notin DOMAIN details THEN acc
    ELSE IF ~(\E x \in DOMAIN details[p] : details[p][x].will_change) THEN acc
    ELSE IF parameters # <<>>
    THEN CountError(acc, ResetParams(acc.st, p, details[p], disk))
    ELSE CountError(acc, reset_to_defaults(acc.st, p, disk))

ResetProviders(st, details, parameters, disk) ==
    ResetOneProvider(
        ResetOneProvider(
            ResetOneProvider(
                ResetOneProvider([st |-> st, error_count |-> 0], ProviderOrder[1],
                                 details, parameters, disk),
                ProviderOrder[2], details, parameters, disk),
            ProviderOrder[3], details, parameters, disk),
        ProviderOrder[4], details, parameters, disk)

\* A reset_config that resets without looking at confirm.
ResetConfigTool_NoGate(st, a, disk) ==
    [st |-> reset_to_defaults(st, get_active_provider_config(st).config.provider, disk).st,
     status |-> "success"]

\* status of the executed reset
ResetDone(e) ==
    [st |-> e.st, status |-> IF e.error_count = 0 THEN "success" ELSE "partial_success"]

\* ResetConfigTool.execute once reset_details is collected.
ResetDecide(st, details, a, disk) ==
    IF ~(\E p \in DOMAIN details : \E x \in DOMAIN details[p] : details[p][x].will_change)
    THEN [st |-> st, status |-> "no_change"]
    ELSE IF a.confirm # "true"
    THEN [st |-> st, status |-> "confirmation_required"]
    ELSE ResetDone(ResetProviders(st, details, a.parameters, disk))

\* providers: all of them, the one named, or the current one
ResetTargets(r, a) ==
    IF a.provider = "all" THEN ProviderOrder
    ELSE IF a.provider # None THEN <<a.provider>>
    ELSE <<r.config.provider>>

\* ResetConfigTool.execute after the current configuration r was read.
ResetFrom(r, a, disk) ==
    ResetDecide(r.st,
                [p \in SeqRange(ResetTargets(r, a)) |-> ResetChanges(r.st, p, a.parameters)],
                a, disk)

\* ResetConfigTool.execute; a = [provider, confirm, parameters], provider
\* None when absent and parameters <<>> when absent.
ResetConfigTool(st, a, disk) == ResetFrom(get_active_provider_config(st), a, disk)

\* AIConfigurationTool.execute: MCPSelfConfigService._get_current_config
\* returns the un-awaited coroutine of get_active_provider_config, so
\* current_config.get raises and execute_natural_language_adjustment answers
\* from its except clause, whatever the request says.
AIConfigurationTool(st, a) == [st |-> st, status |-> "error"]

\* ShowConfigTool.execute with format=json: parameters[x].value
ShowParameters(c) ==
    [st |-> c.st, status |-> "success",
     parameters |-> [x \in DOMAIN c.constraints |-> c.constraints[x].current_value]]

ShowFrom(r) == ShowParameters(get_parameter_constraints(r.st, r.config.provider))

ShowConfigTool(st) == ShowFrom(get_active_provider_config(st))

\* ToolRegistry._validate_arguments for the three tools, on the argument
\* shapes of the model: TRUE when the handler is invoked.
ArgumentsValid(name, a) ==
    CASE name = "switch_provider" -> a.provider \in SeqRange(ProviderOrder)
      [] name = "reset_config" -> a.provider \in SeqRange(ProviderOrder) \cup {"all", None}
      [] name = "ai_configure" -> a.shape = "request"
      [] OTHER -> TRUE

\* tools/call: execute_tool, then _handle_tools_call's result.  isError is
\* False whenever the handler returned, whatever status it returned.
ToolResult(h) == [st |-> h.st, isError |-> FALSE, status |-> h.status]

ToolsCall(st, name, a, disk) ==
    IF ~ArgumentsValid(name, a) THEN [st |-> st, isError |-> TRUE, status |-> ""]
    ELSE IF name = "switch_provider" THEN ToolResult(SwitchProviderTool(st, a, disk))
    ELSE IF name = "reset_config" THEN ToolResult(ResetConfigTool(st, a, disk))
    ELSE IF name = "ai_configure" THEN ToolResult(AIConfigurationTool(st, a))
    ELSE ToolResult(ShowConfigTool(st))

(***************************************************************************)
(* Configuration: state machine                                            *)
(***************************************************************************)

\* Bound: operations on the configuration in one run.
MaxOps == 3

ProviderInputs == {"openai", "anthropic", "mistral"}

\* (parameter, value) pairs handed to set_provider_parameter: in range, above
\* every maximum, a text for a number, a non-integer for an integer, and an
\* unknown parameter.
SetInputs ==
    { <<"temperature", Num(5)>>, <<"temperature", Num(25)>>, <<"temperature", Str("hot")>>,
      <<"top_p", Num(5)>>, <<"max_tokens", Num(1000)>>, <<"max_tokens", Num(5)>>,
      <<"bogus", Num(5)>> }

ConfirmInputs == {"absent", "false", "true"}

SwitchArgs ==
    [provider : ProviderInputs, confirm : ConfirmInputs,
     model : {None, "gpt-4o", "no-such-model"}]

ResetArgs ==
    [provider : {None, "anthropic", "all", "mistral"}, confirm : ConfirmInputs,
     parameters : {<<>>, <<"temperature">>}]

\* ai_configure arguments: the tool's own {request: text}, or the
\* {parameter, value} pair; temperature and value are in tenths.
AIConfigArgs ==
    { [shape |-> "request", parameter |-> "temperature", value |-> 50],
      [shape |-> "request", parameter |-> "temperature", value |-> 9],
      [shape |-> "pair", parameter |-> "temperature", value |-> 50] }

ServerState ==
    [loaded |-> config_cache.loaded, cache |-> config_cache.doc,
     persisted |-> persisted, events |-> <<>>, methods |-> <<>>, sent |-> sent]

NoArgs == [provider |-> None, confirm |-> "absent", model |-> None, parameters |-> <<>>,
           param |-> None, value |-> NoneVal, shape |-> None]

Op(kind, a, ok, isError, status, events) ==
    [kind |-> kind, args |-> a, ok |-> ok, isError |-> isError, status |-> status,
     events |-> events]

\* The handler has run: the server is left in state st.
Commit(st, op) ==
    /\ opCount < MaxOps
    /\ persisted' = st.persisted
    /\ config_cache' = [loaded |-> st.loaded, doc |-> st.cache]
    /\ sent' = st.sent
    /\ lastOp' = op
    /\ repeated' = IF op.kind = lastOp.kind /\ op.args = lastOp.args THEN lastOp.status ELSE ""
    /\ opCount' = opCount + 1
    /\ notified' = st.methods
    /\ UNCHANGED exceptConfig

ConfigInit ==
    /\ persisted = DefaultDoc
    /\ config_cache = [loaded |-> FALSE, doc |-> DefaultDoc]
    /\ sent = 0
    /\ lastOp = Op("none", NoArgs, TRUE, FALSE, "", <<>>)
    /\ opCount = 0
    /\ notified = <<>>
    /\ repeated = ""

ConfigIdle == ConfigInit

SetParameter ==
    \E p \in ProviderInputs, pv \in SetInputs, disk \in BOOLEAN :
        LET r == set_provider_parameter(ServerState, p, pv[1], pv[2], disk) IN
        Commit(r.st, Op("set_provider_parameter",
                        [NoArgs EXCEPT !.provider = p, !.param = pv[1], !.value = pv[2]],
                        r.ok, FALSE, "", r.st.events))

SwitchActive ==
    \E p \in ProviderInputs, disk \in BOOLEAN :
        LET r == switch_active_provider(ServerState, p, disk) IN
        Commit(r.st, Op("switch_active_provider", [NoArgs EXCEPT !.provider = p],
                        r.ok, FALSE, "", r.st.events))

ResetToDefaults ==
    \E p \in ProviderInputs, disk \in BOOLEAN :
        LET r == reset_to_defaults(ServerState, p, disk) IN
        Commit(r.st, Op("reset_to_defaults", [NoArgs EXCEPT !.provider = p],
                        r.ok, FALSE, "", r.st.events))

\* tools/call has answered r.
Called(name, a, r) ==
    Commit(r.st, Op(name, a, ~r.isError, r.isError, r.status, r.st.events))

SwitchCall(a) == [NoArgs EXCEPT !.provider = a.provider, !.confirm = a.confirm,
                                !.model = a.model]

CallSwitchProvider ==
    \E a \in SwitchArgs, disk \in BOOLEAN :
        Called("switch_provider", SwitchCall(a),
               ToolsCall(ServerState, "switch_provider", SwitchCall(a), disk))

ResetCall(a) == [NoArgs EXCEPT !.provider = a.provider, !.confirm = a.confirm,
                               !.parameters = a.parameters]

CallResetConfig ==
    \E a \in ResetArgs, disk \in BOOLEAN :
        Called("reset_config", ResetCall(a),
               ToolsCall(ServerState, "reset_config", ResetCall(a), disk))

AIConfigCall(a) == [NoArgs EXCEPT !.shape = a.shape, !.param = a.parameter,
                                  !.value = Num(a.value)]

CallAIConfigure ==
    \E a \in AIConfigArgs :
        Called("ai_configure", AIConfigCall(a),
               ToolsCall(ServerState, "ai_configure", AIConfigCall(a), TRUE))

CallShowConfig ==
    Called("show_current_config", NoArgs,
           ToolsCall(ServerState, "show_current_config", NoArgs, TRUE))

ConfigNext ==
    \/ SetParameter \/ SwitchActive \/ ResetToDefaults
    \/ CallSwitchProvider \/ CallResetConfig \/ CallAIConfigure \/ CallShowConfig

(***************************************************************************)
(* Chat turn: gateway/websocket.py, router/request_router.py,              *)
(* adapters/openai_adapter.py                                              *)
(***************************************************************************)

\* Bounds: chat requests on the connection, provider chunks read in a turn.
MaxRequests == 2
MaxChunks == 3

\* AdapterResponse(content, finish_reason, tool_calls); tool_calls is a list
\* of dicts, here the ids in order.
AdapterResponse(content, finish_reason, tool_calls) ==
    [content |-> content, finish_reason |-> finish_reason, tool_calls |-> tool_calls]

\* The chunks of the provider stream: choices present or not, delta.content,
\* one delta.tool_calls entry ("none": no entry; None: an entry without id),
\* and choice.finish_reason.
StreamChunks ==
    [choices : BOOLEAN, content : {"", "x"}, tool_id : {"none", None, "call_1", "call_2"},
     finish_reason : {None, "stop", "tool_calls"}]

\* accumulated_tool_calls after the tool calls of a chunk: a new id is added
\* at the end of the dict.
Accumulated(acc, chunk) ==
    IF chunk.tool_id = "none" \/ chunk.tool_id \in SeqRange(acc) THEN acc
    ELSE Append(acc, chunk.tool_id)

\* The elements OpenAIAdapter.chat_completion yields for one chunk.
ContentElements(chunk) ==
    IF chunk.content # "" THEN <<AdapterResponse(chunk.content, None, <<>>)>> ELSE <<>>

ToolCallElements(acc) ==
    IF acc # <<>> THEN <<AdapterResponse(None, None, acc)>> ELSE <<>>

FinishElements(acc, chunk) ==
    IF chunk.finish_reason # None
    THEN ToolCallElements(acc) \o <<AdapterResponse(None, chunk.finish_reason, <<>>)>>
    ELSE <<>>

ChunkElements(acc, chunk) ==
    IF ~chunk.choices THEN <<>>
    ELSE ContentElements(chunk) \o FinishElements(Accumulated(acc, chunk), chunk)

\* The error element of the except clauses and of the configuration fetch.
ErrorElement == AdapterResponse(None, "error", <<>>)

ErrorTypes == {"timeout", "rate_limit", "api_error", "config_error"}

\* tool_names=[tc.name for tc in adapter_response.tool_calls]: the entries
\* are dicts, which have no attribute `name`, so a non-empty list raises
\* AttributeError into the except clause of _handle_chat_request.  The tool
\* execution and the continuation below that line are never reached.
ToolNamesRaise(e) == e.tool_calls # <<>>

\* One round of "async for adapter_response in chat_completion": the
\* statuses of the frames yielded and whether the generator is finished.
RouterRound(e) ==
    IF ToolNamesRaise(e)
    THEN [statuses |-> (IF e.content # None THEN <<"chunk">> ELSE <<>>) \o <<"error">>,
          finished |-> TRUE, raised |-> TRUE]
    ELSE IF e.finish_reason # None
    THEN [statuses |-> (IF e.content # None THEN <<"chunk">> ELSE <<>>) \o <<"complete">>,
          finished |-> TRUE, raised |-> FALSE]
    ELSE [statuses |-> IF e.content # None THEN <<"chunk">> ELSE <<>>,
          finished |-> FALSE, raised |-> FALSE]

\* The rounds for the elements of one chunk, up to the one that finishes.
RECURSIVE RouterRounds(_, _)
RouterRounds(acc, elements) ==
    IF elements = <<>> \/ acc.finished THEN acc
    ELSE RouterRounds(
             [statuses |-> acc.statuses \o RouterRound(Head(elements)).statuses,
              finished |-> RouterRound(Head(elements)).finished,
              raised |-> RouterRound(Head(elements)).raised,
              tool_calls |-> Head(elements).tool_calls],
             Tail(elements))

NoRounds == [statuses |-> <<>>, finished |-> FALSE, raised |-> FALSE, tool_calls |-> <<>>]

\* connection_manager.send_to_connection for each response of the router
Frame(rid, status) == [request_id |-> rid, status |-> status]

Sent(rid, statuses) == [i \in 1..Len(statuses) |-> Frame(rid, statuses[i])]

Outcome(kind, error_type) == [kind |-> kind, error_type |-> error_type]

ChatInit ==
    /\ frames = <<>>
    /\ request_id = 0
    /\ turn = "idle"
    /\ chunk_count = 0
    /\ accumulated_tool_calls = <<>>
    /\ outcome = Outcome("none", None)
    /\ returned_calls = <<>>
    /\ follow_up_request = <<>>
    /\ connected = TRUE

ChatIdle == ChatInit

\* _process_message for a chat message: the acknowledgment, then the set-up
\* of _handle_chat_request, which answers an error frame when no adapter or
\* configuration is available.
ChatReceive ==
    /\ connected
    /\ turn \in {"idle", "done"}
    /\ request_id < MaxRequests
    /\ request_id' = request_id + 1
    /\ \E available \in BOOLEAN :
          /\ frames' = frames \o Sent(request_id + 1,
                                      IF available THEN <<"processing">>
                                      ELSE <<"processing", "error">>)
          /\ turn' = IF available THEN "streaming" ELSE "done"
          /\ outcome' = Outcome(IF available THEN "none" ELSE "no_provider", None)
    /\ chunk_count' = 0
    /\ accumulated_tool_calls' = <<>>
    /\ returned_calls' = <<>>
    /\ follow_up_request' = <<>>
    /\ UNCHANGED connected
    /\ UNCHANGED exceptChat

\* The turn after the router's rounds r for one chunk.
AfterRounds(r) ==
    /\ frames' = frames \o Sent(request_id, r.statuses)
    /\ turn' = IF r.finished THEN "done" ELSE "streaming"
    /\ outcome' = IF ~r.finished THEN outcome
                  ELSE IF r.raised THEN Outcome("tool_calls", None)
                  ELSE Outcome("finish", None)
    /\ returned_calls' = IF r.raised THEN r.tool_calls ELSE returned_calls

\* The provider stream delivers a chunk: the adapter's loop body, and the
\* router's for the elements it yields.
StreamChunk ==
    /\ turn = "streaming"
    /\ chunk_count < MaxChunks
    /\ \E chunk \in StreamChunks :
          /\ chunk_count' = chunk_count + 1
          /\ accumulated_tool_calls' =
                IF chunk.choices THEN Accumulated(accumulated_tool_calls, chunk)
                ELSE accumulated_tool_calls
          /\ AfterRounds(RouterRounds(NoRounds, ChunkElements(accumulated_tool_calls, chunk)))
    /\ UNCHANGED <<request_id, follow_up_request, connected>>
    /\ UNCHANGED exceptChat

\* The provider stream ends without a chunk carrying a finish reason: the
\* adapter's loop and the router's loop both run out.
StreamExhausted ==
    /\ turn = "streaming"
    /\ turn' = "done"
    /\ outcome' = Outcome("exhausted", None)
    /\ UNCHANGED <<frames, request_id, chunk_count, accumulated_tool_calls, returned_calls,
                   follow_up_request, connected>>
    /\ UNCHANGED exceptChat

\* The adapter's except clauses (timeout, rate limit, API error) and its
\* configuration fetch yield the error element, which the router takes as
\* any element with a finish reason.
StreamError ==
    /\ turn = "streaming"
    /\ \E error_type \in ErrorTypes :
          /\ error_type = "config_error" => chunk_count = 0
          /\ outcome' = Outcome("error_element", error_type)
    /\ frames' = frames \o Sent(request_id, RouterRound(ErrorElement).statuses)
    /\ turn' = "done"
    /\ UNCHANGED <<request_id, chunk_count, accumulated_tool_calls, returned_calls,
                   follow_up_request, connected>>
    /\ UNCHANGED exceptChat

\* Any other exception leaves the adapter and reaches the except clause of
\* _handle_chat_request.
StreamRaises ==
    /\ turn = "streaming"
    /\ frames' = frames \o Sent(request_id, <<"error">>)
    /\ turn' = "done"
    /\ outcome' = Outcome("raised", None)
    /\ UNCHANGED <<request_id, chunk_count, accumulated_tool_calls, returned_calls,
                   follow_up_request, connected>>
    /\ UNCHANGED exceptChat

\* The client closes its WebSocket.  _message_loop is inside
\* _process_message for the whole turn and meets WebSocketDisconnect only at
\* its next receive_text; until then send_to_connection catches the failure
\* of send_text and returns False to _route_to_router, which ignores it.
ClientDisconnects ==
    /\ connected
    /\ connected' = FALSE
    /\ UNCHANGED <<frames, request_id, turn, chunk_count, accumulated_tool_calls, outcome,
                   returned_calls, follow_up_request>>
    /\ UNCHANGED exceptChat

ChatNext ==
    \/ ChatReceive
    \/ StreamChunk
    \/ StreamExhausted
    \/ StreamError
    \/ StreamRaises
    \/ ClientDisconnects

(***************************************************************************)
(* Notification broadcasts: mcp/mcp2025_server.py                          *)
(*                                                                         *)
(* A broadcast is a coroutine that iterates state.notification_subscribers *)
(* and awaits send_json on each WebSocket.  While it is suspended in a     *)
(* send, other coroutines run: other broadcasts, the notifications         *)
(* endpoint accepting or dropping a WebSocket.  A step of a broadcast runs *)
(* from one suspension to the next.                                        *)
(***************************************************************************)

\* Bounds: broadcasts invoked in one run; the WebSockets and tool names.
MaxBroadcasts == 2

Sockets == {"w1", "w2"}

ToolNames == {"t1", "t2"}

TOOLS_LIST_CHANGED == "notifications/tools/list_changed"

ConfigMethods == {"configuration/changed", "configuration/provider_switched",
                  "configuration/reset"}

NoTask ==
    [pc |-> "unused", method |-> None, version |-> 0, initial |-> {}, size |-> 0,
     visited |-> {}, disconnected |-> {}, delivered |-> {}]

\* The broadcasts invoked so far are tasks[1..Started], in that order.
Started == Cardinality({b \in 1..MaxBroadcasts : tasks[b].pc # "unused"})

\* iter(state.notification_subscribers): the set iterator remembers the size
\* of the set.
NewTask(method, version) ==
    [NoTask EXCEPT !.pc = "running", !.method = method, !.version = version,
                   !.initial = subscribers, !.size = Cardinality(subscribers)]

\* try: await websocket.send_json(...) except Exception: disconnected.add(...)
SendJson(t, w) ==
    IF w \in broken
    THEN [t EXCEPT !.visited = @ \cup {w}, !.disconnected = @ \cup {w}]
    ELSE [t EXCEPT !.visited = @ \cup {w}, !.delivered = @ \cup {w}]

\* What the WebSocket's client has been sent after send_json by broadcast b.
Delivered(b, t, w) ==
    IF w \in broken THEN received
    ELSE [received EXCEPT ![w] = Append(@, [b |-> b, method |-> t.method,
                                            version |-> t.version])]

\* The loop is entered: with no subscriber it falls through to the end, else
\* the broadcast is suspended in its first send.
Enter(b, t) ==
    IF subscribers = {}
    THEN /\ tasks' = [tasks EXCEPT ![b] = [t EXCEPT !.pc = "returned"]]
         /\ UNCHANGED <<subscribers, received>>
    ELSE \E w \in subscribers :
            /\ tasks' = [tasks EXCEPT ![b] = SendJson(t, w)]
            /\ received' = Delivered(b, t, w)
            /\ UNCHANGED subscribers

\* _send_notification_to_subscribers / the loop of notify_tools_changed is
\* invoked with a notification.
Broadcast(method, version) ==
    /\ Started < MaxBroadcasts
    /\ Enter(Started + 1, NewTask(method, version))

\* "Set changed size during iteration": raised by the for statement, outside
\* the try of the loop body, so it leaves the broadcast before the clean-up.
SetChangedSize(t) == Cardinality(subscribers) # t.size

\* The next step of the for loop: RuntimeError, the next send, or the end of
\* the loop with the clean-up.  Members the iterator has not visited that
\* were added after it was created may or may not be visited.
Resume(b) ==
    /\ tasks[b].pc = "running"
    /\ IF SetChangedSize(tasks[b])
       THEN /\ tasks' = [tasks EXCEPT ![b].pc = "raised"]
            /\ UNCHANGED <<subscribers, received>>
       ELSE \/ /\ (subscribers \cap tasks[b].initial) \ tasks[b].visited = {}
               /\ subscribers' = subscribers \ tasks[b].disconnected
               /\ tasks' = [tasks EXCEPT ![b].pc = "returned"]
               /\ UNCHANGED received
            \/ \E w \in subscribers \ tasks[b].visited :
                  /\ tasks' = [tasks EXCEPT ![b] = SendJson(tasks[b], w)]
                  /\ received' = Delivered(b, tasks[b], w)
                  /\ UNCHANGED subscribers

BcastInit ==
    /\ subscribers = {}
    /\ everSubscribed = {}
    /\ ended = {}
    /\ broken = {}
    /\ tools_version = 0
    /\ tool_names = {}
    /\ tasks = [b \in 1..MaxBroadcasts |-> NoTask]
    /\ received = [w \in Sockets |-> <<>>]

BcastIdle == BcastInit

\* websocket_notifications: accept, then notification_subscribers.add
Subscribe ==
    /\ \E w \in Sockets \ everSubscribed :
          /\ subscribers' = subscribers \cup {w}
          /\ everSubscribed' = everSubscribed \cup {w}
    /\ UNCHANGED <<ended, broken, tools_version, tool_names, tasks, received>>
    /\ UNCHANGED exceptBcast

\* What websocket.send_json raises on a connection that is gone: the
\* framework's WebSocketDisconnect, or the error of the state machine or of
\* the transport under it.
SendFailures == {"WebSocketDisconnect", "RuntimeError"}

\* A handler that discards its socket whatever ends it.
HandlerEnds_Finally(subs, w, exc) == subs \ {w}

\* The subscriber set after the handler of w ended with exception exc: only
\* "except WebSocketDisconnect" discards the socket.
HandlerEnds(subs, w, exc) ==
    IF exc = "WebSocketDisconnect" THEN subs \ {w} ELSE subs

\* websocket_notifications: receive_text raises WebSocketDisconnect, the
\* handler discards the socket and ends.
Disconnect ==
    /\ \E w \in everSubscribed \ ended :
          /\ subscribers' = HandlerEnds(subscribers, w, "WebSocketDisconnect")
          /\ broken' = broken \cup {w}
          /\ ended' = ended \cup {w}
    /\ UNCHANGED <<everSubscribed, tools_version, tool_names, tasks, received>>
    /\ UNCHANGED exceptBcast

\* websocket_notifications: receive_text timed out on a connection that is
\* gone, and the keepalive send_json raises.
KeepaliveFails ==
    /\ \E w \in (everSubscribed \cap broken) \ ended, exc \in SendFailures :
          /\ subscribers' = HandlerEnds(subscribers, w, exc)
          /\ ended' = ended \cup {w}
    /\ UNCHANGED <<everSubscribed, broken, tools_version, tool_names, tasks, received>>
    /\ UNCHANGED exceptBcast

\* The connection of a subscriber goes away: sends to it raise from now on.
ConnectionLost ==
    /\ \E w \in subscribers \ broken : broken' = broken \cup {w}
    /\ UNCHANGED <<subscribers, everSubscribed, ended, tools_version, tool_names, tasks, received>>
    /\ UNCHANGED exceptBcast

\* register_tool: the registry takes the tool, then notify_tools_changed.
RegisterTool ==
    /\ \E name \in ToolNames : tool_names' = tool_names \cup {name}
    /\ tools_version' = tools_version + 1
    /\ Broadcast(TOOLS_LIST_CHANGED, tools_version + 1)
    /\ UNCHANGED <<everSubscribed, ended, broken>>
    /\ UNCHANGED exceptBcast

\* unregister_tool: notify_tools_changed only when the registry held the name.
UnregisterTool ==
    /\ \E name \in ToolNames :
          IF name \in tool_names
          THEN /\ tool_names' = tool_names \ {name}
               /\ tools_version' = tools_version + 1
               /\ Broadcast(TOOLS_LIST_CHANGED, tools_version + 1)
          ELSE UNCHANGED <<tool_names, tools_version, subscribers, tasks, received>>
    /\ UNCHANGED <<everSubscribed, ended, broken>>
    /\ UNCHANGED exceptBcast

\* A configuration mutation has been saved and notifies.
NotifyConfiguration ==
    /\ \E method \in ConfigMethods : Broadcast(method, 0)
    /\ UNCHANGED <<everSubscribed, ended, broken, tools_version, tool_names>>
    /\ UNCHANGED exceptBcast

\* A suspended broadcast is resumed.
ResumeBroadcast ==
    /\ \E b \in 1..MaxBroadcasts : Resume(b)
    /\ UNCHANGED <<everSubscribed, ended, broken, tools_version, tool_names>>
    /\ UNCHANGED exceptBcast

BcastNext ==
    \/ Subscribe
    \/ Disconnect
    \/ KeepaliveFails
    \/ ConnectionLost
    \/ RegisterTool
    \/ UnregisterTool
    \/ NotifyConfiguration
    \/ ResumeBroadcast

(***************************************************************************)
(* Argument validation of the tool registry: mcp/tool_registry.py          *)
(***************************************************************************)

\* A JSON value as Python holds it: t is the Python type, n the magnitude of
\* a number in tenths (True is 1), s the text of a string, items the items
\* of a list.
JsonValue(t, n, s, items) == [t |-> t, n |-> n, s |-> s, items |-> items]

Null == JsonValue("NoneType", 0, "", <<>>)
PyTrue == JsonValue("bool", 10, "", <<>>)
PyInt(i) == JsonValue("int", 10 * i, "", <<>>)
PyFloat(tenths) == JsonValue("float", tenths, "", <<>>)
PyStr(text) == JsonValue("str", 0, text, <<>>)
PyList(items) == JsonValue("list", 0, "", items)
PyDict == JsonValue("dict", 0, "", <<>>)

\* The key is not in the arguments.
Missing == JsonValue("missing", 0, "", <<>>)

ScalarValues ==
    {Null, PyTrue, PyInt(0), PyInt(5), PyInt(11), PyFloat(55),
     PyStr("ab"), PyStr("abc"), PyStr("xab"), PyStr("zz"), PyDict}

ArgumentValues ==
    ScalarValues \cup {PyList(<<>>), PyList(<<PyInt(5)>>), PyList(<<PyInt(5), PyStr("ab")>>),
                       PyList(<<PyTrue>>)}

\* ToolParameter: enum is the list of allowed values (<<>> for None);
\* minimum, maximum and pattern are the empty set for None or hold the one
\* value; items holds the type of the items' ToolParameter.
ToolParameter(type, required, enum, minimum, maximum, pattern, items) ==
    [type |-> type, required |-> required, enum |-> enum, minimum |-> minimum,
     maximum |-> maximum, pattern |-> pattern, items |-> items]

\* The declarations of the one parameter "p" of the tool.
ParameterDefs ==
    { ToolParameter(ty, r, <<>>, {}, {}, {}, {}) :
        ty \in {"string", "integer", "number", "boolean", "array", "object"}, r \in BOOLEAN }
    \cup { ToolParameter("string", r, <<>>, {}, {}, {"ab"}, {}) : r \in BOOLEAN }
    \cup { ToolParameter("string", r, <<PyStr("ab"), PyStr("zz")>>, {}, {}, {}, {}) :
             r \in BOOLEAN }
    \cup { ToolParameter(ty, r, <<>>, {10}, {100}, {}, {}) :
             ty \in {"integer", "number"}, r \in BOOLEAN }
    \cup { ToolParameter("integer", r, <<PyInt(5), PyInt(11)>>, {}, {}, {}, {}) : r \in BOOLEAN }
    \cup { ToolParameter("array", r, <<>>, {}, {}, {}, {"integer"}) : r \in BOOLEAN }

\* Bound: calls of execute_tool in one run.
MaxExecutions == 2

\* isinstance(value, classes): bool is a subclass of int.
isinstance(value, classes) ==
    \/ value.t \in classes
    \/ value.t = "bool" /\ "int" \in classes

\* The texts of the model that begin with prefix / that hold part.
StartsWith(text, prefix) == \E suffix \in {"", "c"} : text = prefix \o suffix

Contains(text, part) ==
    \E before \in {"", "x"}, after \in {"", "c"} : text = before \o part \o after

\* re.match(pattern, value): the pattern, a literal, is matched at the start.
re_match(pattern, text) == StartsWith(text, pattern)

\* Python's ==: numbers, True among them, are equal when their values are.
PyEq(a, b) ==
    IF {a.t, b.t} \subseteq {"bool", "int", "float"} THEN a.n = b.n ELSE a = b

\* value in param.enum
InEnum(value, enum) == \E i \in 1..Len(enum) : PyEq(enum[i], value)

\* "if param.enum and value not in param.enum"
EnumError(param, value) ==
    IF param.enum # <<>> /\ ~InEnum(value, param.enum) THEN "must be one of" ELSE ""

RangeError(param, value) ==
    IF \E m \in param.minimum : value.n < m THEN "must be >="
    ELSE IF \E m \in param.maximum : value.n > m THEN "must be <="
    ELSE ""

\* The ToolParameter under "items".
ItemParameter(type) == ToolParameter(type, FALSE, <<>>, {}, {}, {}, {})

\* _validate_parameter_type: "" for None, else the error message.
RECURSIVE _validate_parameter_type(_, _)

\* "for i, item in enumerate(value)": the first item error.
RECURSIVE ItemsError(_, _)
ItemsError(item_param, items) ==
    IF items = <<>> THEN ""
    ELSE IF _validate_parameter_type(item_param, Head(items)) # "" THEN "item"
    ELSE ItemsError(item_param, Tail(items))

\* The branch of the declared type.
TypeError(param, value) ==
    CASE param.type = "string" ->
             IF ~isinstance(value, {"str"}) THEN "expected string"
             ELSE IF \E pt \in param.pattern : ~re_match(pt, value.s)
             THEN "does not match pattern" ELSE ""
      [] param.type = "integer" ->
             IF ~isinstance(value, {"int"}) THEN "expected integer"
             ELSE RangeError(param, value)
      [] param.type = "number" ->
             IF ~isinstance(value, {"int", "float"}) THEN "expected number"
             ELSE RangeError(param, value)
      [] param.type = "boolean" ->
             IF ~isinstance(value, {"bool"}) THEN "expected boolean" ELSE ""
      [] param.type = "array" ->
             IF ~isinstance(value, {"list"}) THEN "expected array"
             ELSE IF param.items = {} THEN ""
             ELSE ItemsError(ItemParameter(CHOOSE ty \in param.items : TRUE), value.items)
      [] OTHER ->
             IF ~isinstance(value, {"dict"}) THEN "expected object" ELSE ""

_validate_parameter_type(param, value) ==
    IF value = Null
    THEN IF param.required THEN "is required but got null" ELSE ""
    ELSE IF TypeError(param, value) # "" THEN TypeError(param, value)
    ELSE EnumError(param, value)

\* The arguments of a call: the value under "p", or Missing, and whether a
\* key "q" the tool does not declare is present.
CallArguments == [p : ArgumentValues \cup {Missing}, q : BOOLEAN]

\* _validate_arguments: "" for None, else the error message.
_validate_arguments(param, args) ==
    IF param.required /\ args.p = Missing THEN "Required parameter is missing"
    ELSE IF args.p # Missing /\ _validate_parameter_type(param, args.p) # ""
    THEN _validate_parameter_type(param, args.p)
    ELSE IF args.q THEN "Unknown parameter"
    ELSE ""

\* The registry's entry for the tool name of the call: whether the tool and
\* its handler are registered, the declaration of "p", and what the handler
\* does when it is invoked.
RegistryEntries ==
    [registered : BOOLEAN, has_handler : BOOLEAN, param : ParameterDefs,
     handler : {"returns", "raises"}]

\* The answer of execute_tool and whether handler.execute was awaited.
Execution(success, invoked, error) ==
    [success |-> success, invoked |-> invoked, error |-> error]

NoExecution == Execution(FALSE, FALSE, "")

\* ToolRegistry.execute_tool on the arguments of the call.
ExecuteValidated(entry, args) ==
    IF ~entry.registered THEN Execution(FALSE, FALSE, "not found")
    ELSE IF ~entry.has_handler THEN Execution(FALSE, FALSE, "No handler found")
    ELSE IF _validate_arguments(entry.param, args) # ""
    THEN Execution(FALSE, FALSE, "Argument validation failed")
    ELSE IF entry.handler = "raises" THEN Execution(FALSE, TRUE, "boom")
    ELSE Execution(TRUE, TRUE, "")

ValidateInit ==
    /\ entry_of_tool \in RegistryEntries
    /\ call_arguments = [p |-> Missing, q |-> FALSE]
    /\ last_execution = NoExecution
    /\ executions = 0

ValidateIdle ==
    /\ entry_of_tool = [registered |-> FALSE, has_handler |-> FALSE,
                        param |-> ItemParameter("string"), handler |-> "returns"]
    /\ call_arguments = [p |-> Missing, q |-> FALSE]
    /\ last_execution = NoExecution
    /\ executions = 0

\* execute_tool is called with some arguments.
ExecuteTool ==
    /\ executions < MaxExecutions
    /\ \E args \in CallArguments :
          /\ call_arguments' = args
          /\ last_execution' = ExecuteValidated(entry_of_tool, args)
    /\ executions' = executions + 1
    /\ UNCHANGED entry_of_tool
    /\ UNCHANGED exceptValidate

ValidateNext == ExecuteTool

(***************************************************************************)
(* Adapter streams: adapters/openai_adapter.py, anthropic_adapter.py,      *)
(* gemini_adapter.py, openrouter_adapter.py                                *)
(***************************************************************************)

\* Bound: chunks or events of one provider stream.
MaxEvents == 3

Adapters == {"openai", "anthropic", "gemini", "openrouter"}

\* A _get_config that does not compare the provider.
_get_config_Unchecked(name, active) == TRUE

\* _get_config: TRUE when it returns the configuration, FALSE when it
\* raises RuntimeError (the provider of the configuration is not the
\* adapter's).
_get_config(name, active) == active = name

\* What the provider stream hands to the adapter's loop.  OpenAI and
\* OpenRouter: chunks; Anthropic: events; Gemini: chunks with a text.
OpenAIChunks ==
    [choices : {TRUE}, content : {"", "x"}, tool_id : {"none", "call_1"},
     finish_reason : {None, "stop", "tool_calls"}]
    \cup {[choices |-> FALSE, content |-> "", tool_id |-> "none", finish_reason |-> None]}

AnthropicEvents ==
    [type : {"content_block_delta"}, text : {"", "x"}, tool_use : {FALSE}]
    \cup [type : {"content_block_start"}, text : {""}, tool_use : BOOLEAN]
    \cup [type : {"message_stop", "message_delta"}, text : {""}, tool_use : {FALSE}]

GeminiChunks == [text : {"", "x"}]

Upstream(name) ==
    CASE name = "anthropic" -> AnthropicEvents
      [] name = "gemini" -> GeminiChunks
      [] OTHER -> OpenAIChunks

\* The loop bodies: the elements yielded for one chunk or event.
OpenRouterElements(chunk) ==
    IF ~chunk.choices THEN <<>>
    ELSE ContentElements(chunk)
         \o (IF chunk.tool_id # "none" THEN <<AdapterResponse(None, None, <<chunk.tool_id>>)>>
             ELSE <<>>)
         \o (IF chunk.finish_reason # None
             THEN <<AdapterResponse(None, chunk.finish_reason, <<>>)>> ELSE <<>>)

AnthropicElements(event) ==
    CASE event.type = "content_block_delta" ->
             IF event.text # "" THEN <<AdapterResponse(event.text, None, <<>>)>> ELSE <<>>
      [] event.type = "content_block_start" ->
             IF event.tool_use THEN <<AdapterResponse(None, None, <<"call_1">>)>> ELSE <<>>
      [] event.type = "message_stop" -> <<AdapterResponse(None, "stop", <<>>)>>
      [] OTHER -> <<>>

GeminiElements(chunk) ==
    IF chunk.text # "" THEN <<AdapterResponse(chunk.text, None, <<>>)>> ELSE <<>>

LoopElements(name, acc, x) ==
    CASE name = "openai" -> ChunkElements(acc, x)
      [] name = "openrouter" -> OpenRouterElements(x)
      [] name = "anthropic" -> AnthropicElements(x)
      [] name = "gemini" -> GeminiElements(x)

\* The loop is left by "break" after this chunk or event.
Breaks(name, x) ==
    CASE name \in {"openai", "openrouter"} -> x.choices /\ x.finish_reason # None
      [] name = "anthropic" -> x.type = "message_stop"
      [] name = "gemini" -> FALSE

\* What follows the loop when the provider stream is exhausted.
AfterLoop(name) ==
    IF name = "gemini" THEN <<AdapterResponse(None, "stop", <<>>)>> ELSE <<>>

\* The exceptions of the provider request and stream, by what the except
\* clauses tell apart: openai.APITimeoutError, openai.RateLimitError,
\* openai.APIError (for Anthropic and Gemini: the words of the message),
\* and any other Exception.
Exceptions == {"timeout", "rate_limit", "api_error", "other"}

\* OpenAI and OpenRouter catch the three openai classes; Anthropic and
\* Gemini catch Exception.
Caught(name, exc) == name \in {"anthropic", "gemini"} \/ exc # "other"

ErrorTypeOf(exc) == IF exc = "other" THEN "api_error" ELSE exc

AdapterInit ==
    /\ provider_name \in Adapters
    /\ config_provider \in Adapters
    /\ gen = "created"
    /\ yielded = <<>>
    /\ last_error_type = None
    /\ upstream_requests = 0
    /\ events_read = 0
    /\ tool_acc = <<>>

AdapterIdle ==
    /\ provider_name = "openai"
    /\ config_provider = "openai"
    /\ gen = "created"
    /\ yielded = <<>>
    /\ last_error_type = None
    /\ upstream_requests = 0
    /\ events_read = 0
    /\ tool_acc = <<>>

\* chat_completion up to the provider request: the configuration is
\* fetched; on its failure the error element is yielded and the generator
\* returns.
StartCompletion ==
    /\ gen = "created"
    /\ IF _get_config(provider_name, config_provider)
       THEN /\ gen' = "streaming"
            /\ upstream_requests' = upstream_requests + 1
            /\ UNCHANGED <<yielded, last_error_type>>
       ELSE /\ gen' = "ended"
            /\ yielded' = Append(yielded, ErrorElement)
            /\ last_error_type' = "config_error"
            /\ UNCHANGED upstream_requests
    /\ UNCHANGED <<provider_name, config_provider, events_read, tool_acc>>
    /\ UNCHANGED exceptAdapter

\* One round of the loop over the provider stream.
UpstreamEvent ==
    /\ gen = "streaming"
    /\ events_read < MaxEvents
    /\ \E x \in Upstream(provider_name) :
          /\ yielded' = yielded \o LoopElements(provider_name, tool_acc, x)
          /\ tool_acc' = IF provider_name = "openai" /\ x.choices
                         THEN Accumulated(tool_acc, x) ELSE tool_acc
          /\ gen' = IF Breaks(provider_name, x) THEN "ended" ELSE "streaming"
    /\ events_read' = events_read + 1
    /\ UNCHANGED <<provider_name, config_provider, last_error_type, upstream_requests>>
    /\ UNCHANGED exceptAdapter

\* The provider stream is exhausted.
UpstreamEnds ==
    /\ gen = "streaming"
    /\ yielded' = yielded \o AfterLoop(provider_name)
    /\ gen' = "ended"
    /\ UNCHANGED <<provider_name, config_provider, last_error_type, upstream_requests,
                   events_read, tool_acc>>
    /\ UNCHANGED exceptAdapter

\* The provider request or stream raises.
UpstreamRaises ==
    /\ gen = "streaming"
    /\ \E exc \in Exceptions :
          IF Caught(provider_name, exc)
          THEN /\ yielded' = Append(yielded, ErrorElement)
               /\ last_error_type' = ErrorTypeOf(exc)
               /\ gen' = "ended"
          ELSE /\ gen' = "raised"
               /\ UNCHANGED <<yielded, last_error_type>>
    /\ UNCHANGED <<provider_name, config_provider, upstream_requests, events_read, tool_acc>>
    /\ UNCHANGED exceptAdapter

AdapterNext == StartCompletion \/ UpstreamEvent \/ UpstreamEnds \/ UpstreamRaises

\* The positions of the terminal elements of the stream.
TerminalPositions == {i \in 1..Len(yielded) : yielded[i].finish_reason # None}

\* C17: a chat_completion stream that is over has yielded exactly one
\* element with a finish_reason, and it is the last element.
C17_OneTerminalElement ==
    gen \in {"ended", "raised"} => TerminalPositions = {Len(yielded)} /\ yielded # <<>>

\* C18: when the configuration names another provider than the adapter's,
\* chat_completion yields one element, the error of type config_error, and
\* makes no request to the provider.
C18_ConfigMismatch ==
    (gen # "created" /\ config_provider # provider_name) =>
        /\ gen = "ended"
        /\ yielded = <<ErrorElement>>
        /\ last_error_type = "config_error"
        /\ upstream_requests = 0

\* The Anthropic adapter was called while the configuration names openai.
C18_Witness ==
    /\ provider_name = "anthropic"
    /\ config_provider = "openai"
    /\ gen = "ended"
    /\ Len(yielded) = 1
    /\ last_error_type = "config_error"

(***************************************************************************)
(* JSON-RPC endpoint: mcp/mcp2025_server.py, mcp/jsonrpc.py,               *)
(* mcp/tool_registry.py                                                    *)
(***************************************************************************)

\* Bound: messages in one batch.
MaxBatch == 3

PARSE_ERROR == -32700
METHOD_NOT_FOUND == -32601
INVALID_REQUEST == -32600
MCP_TOOL_NOT_FOUND == -32001
MCP_TOOL_EXECUTION_ERROR == -32002

RequestIds == {"a", "b"}

\* What a tools/call request finds in the registry under params.name:
\*   returns / returns_none - a handler that returns a dict / returns None
\*   raises / raises_empty  - a handler that raises Exception("boom") / Exception()
\*   not_found              - no tool of that name
\*   invalid_arguments      - _validate_arguments returns an error
Tools == {"returns", "returns_none", "raises", "raises_empty", "not_found",
          "invalid_arguments"}

RequestMessage(id, method, tool) ==
    [kind |-> "request", id |-> id, method |-> method, tool |-> tool]

\* The items a request body can hold: requests, a notification, and an
\* object that parse_message rejects.
Messages ==
    { RequestMessage(id, method, None) : id \in RequestIds, method \in {"ping", "resources/list"} }
    \cup { RequestMessage(id, "tools/call", t) : id \in RequestIds, t \in Tools }
    \cup { [kind |-> "notification", id |-> None, method |-> "notifications/initialized",
            tool |-> None],
           [kind |-> "invalid", id |-> None, method |-> None, tool |-> None] }

Bodies == UNION { [1..n -> Messages] : n \in 0..MaxBatch }

TextItem(text) == [type |-> "text", text |-> text]

\* JSONRPCHandler.create_response / create_error_response
create_response(id, isError, content) ==
    [id |-> id, kind |-> "result", code |-> 0, isError |-> isError, content |-> content]

create_error_response(id, code) ==
    [id |-> id, kind |-> "error", code |-> code, isError |-> FALSE, content |-> <<>>]

\* handler.execute(arguments): returns a result or raises; message is str(e).
Handler(tool) ==
    CASE tool = "raises" -> [raised |-> TRUE, message |-> "boom", result |-> None]
      [] tool = "raises_empty" -> [raised |-> TRUE, message |-> "", result |-> None]
      [] tool = "returns_none" -> [raised |-> FALSE, message |-> "", result |-> None]
      [] OTHER -> [raised |-> FALSE, message |-> "", result |-> "done"]

ToolExecution(success, result, error) ==
    [raised |-> FALSE, success |-> success, result |-> result, error |-> error]

\* try: result = await handler.execute(arguments) ... except Exception as e
Executed(h) ==
    IF h.raised THEN ToolExecution(FALSE, None, h.message)
    ELSE ToolExecution(TRUE, h.result, "")

\* An execute_tool without its except clause: the handler's exception
\* reaches the caller.
execute_tool_Propagates(tool) ==
    IF tool = "not_found" THEN ToolExecution(FALSE, None, "Tool not found")
    ELSE IF tool = "invalid_arguments"
    THEN ToolExecution(FALSE, None, "Argument validation failed")
    ELSE IF Handler(tool).raised
    THEN [raised |-> TRUE, success |-> FALSE, result |-> None, error |-> Handler(tool).message]
    ELSE Executed(Handler(tool))

\* ToolRegistry.execute_tool
execute_tool(tool) ==
    IF tool = "not_found" THEN ToolExecution(FALSE, None, "Tool not found")
    ELSE IF tool = "invalid_arguments"
    THEN ToolExecution(FALSE, None, "Argument validation failed")
    ELSE Executed(Handler(tool))

\* execution.error or "Tool execution failed"
ErrorText(error) == IF error = "" THEN "Tool execution failed" ELSE error

\* _handle_tools_call once execute_tool has answered or raised; a result
\* that is no dict raises at '"message" in execution.result'.
ToolsCallResponse(id, execution) ==
    IF execution.raised THEN create_error_response(id, MCP_TOOL_EXECUTION_ERROR)
    ELSE IF execution.success
    THEN IF execution.result = None
         THEN create_error_response(id, MCP_TOOL_EXECUTION_ERROR)
         ELSE create_response(id, FALSE, <<TextItem(execution.result)>>)
    ELSE create_response(id, TRUE, <<TextItem(ErrorText(execution.error))>>)

_handle_tools_call(request) == ToolsCallResponse(request.id, execute_tool(request.tool))

_handle_ping(request) == create_response(request.id, FALSE, <<>>)

\* A dispatch that answers every method it does not know as a ping.
_handle_request_Lenient(request) ==
    IF request.method = "tools/call" THEN _handle_tools_call(request)
    ELSE _handle_ping(request)

_handle_request(request) ==
    IF request.method = "ping" THEN _handle_ping(request)
    ELSE IF request.method = "tools/call" THEN _handle_tools_call(request)
    ELSE create_error_response(request.id, METHOD_NOT_FOUND)

\* A loop that puts each response in front of the earlier ones.
AppendResponse_Front(rs, response) == <<response>> \o rs

\* if response: responses.append(response)
AppendResponse(rs, response) == Append(rs, response)

\* A validation that looks at the first item only.
validate_batch_FirstOnly(body) ==
    body = <<>> \/ body[1].kind \in {"request", "notification"}

\* JSONRPCHandler.validate_batch raises ValueError on an item that is no
\* request and no notification.
validate_batch(body) == \A i \in 1..Len(body) : body[i].kind \in {"request", "notification"}

\* A request body that is no array: text that is no JSON, or a JSON object,
\* given by the keys it holds and the value under "jsonrpc".
NoBody ==
    [shape |-> "none", has_id |-> FALSE, has_method |-> FALSE, has_result |-> FALSE,
     has_error |-> FALSE, jsonrpc |-> None]

SingleBodies ==
    [shape : {"object"}, has_id : BOOLEAN, has_method : BOOLEAN, has_result : BOOLEAN,
     has_error : BOOLEAN, jsonrpc : {"2.0", "1.0"}]
    \cup {[NoBody EXCEPT !.shape = "text"]}

\* Model.model_validate(data): the required keys are there by the branch
\* taken, jsonrpc must be the literal "2.0"; pydantic's ValidationError is a
\* ValueError.
model_validate(type, data, required) ==
    IF required /\ data.jsonrpc = "2.0" THEN type ELSE "ValueError"

\* JSONRPCHandler.parse_message: the type of the message, or "ValueError".
parse_message(data) ==
    IF data.has_id
    THEN IF data.has_method THEN model_validate("request", data, TRUE)
         ELSE IF data.has_result THEN model_validate("response", data, TRUE)
         ELSE IF data.has_error THEN model_validate("error_response", data, TRUE)
         ELSE "ValueError"
    ELSE model_validate("notification", data, data.has_method)

\* handle_jsonrpc on a body that is no array: the responses in the answer.
\* request.json() raises a ValueError on text that is no JSON.
SingleAnswer(data, type) ==
    CASE data.shape = "text" -> <<create_error_response(None, PARSE_ERROR)>>
      [] type = "ValueError" -> <<create_error_response(None, PARSE_ERROR)>>
      [] type = "request" -> <<_handle_request(RequestMessage("a", "ping", None))>>
      [] type = "notification" -> <<>>
      [] OTHER -> <<create_error_response(None, INVALID_REQUEST)>>

RpcInit ==
    /\ batch = <<>>
    /\ position = 0
    /\ responses = <<>>
    /\ http = "idle"
    /\ single = NoBody

RpcIdle == RpcInit

\* handle_jsonrpc receives a body that is an array.
PostBatch ==
    /\ http = "idle"
    /\ \E body \in Bodies :
          /\ batch' = body
          /\ IF validate_batch(body)
             THEN /\ http' = "handling"
                  /\ position' = 1
                  /\ responses' = <<>>
             ELSE /\ http' = "parse_error"
                  /\ position' = 0
                  /\ responses' = <<create_error_response(None, PARSE_ERROR)>>
    /\ UNCHANGED single
    /\ UNCHANGED exceptRpc

\* handle_jsonrpc receives a body that is no array.
PostSingle ==
    /\ http = "idle"
    /\ \E data \in SingleBodies :
          /\ single' = data
          /\ responses' = SingleAnswer(data, parse_message(data))
    /\ http' = "answered"
    /\ UNCHANGED <<batch, position>>
    /\ UNCHANGED exceptRpc

\* One round of "for message in batch" on a request.
HandleRequest ==
    /\ http = "handling"
    /\ position <= Len(batch)
    /\ batch[position].kind = "request"
    /\ responses' = AppendResponse(responses, _handle_request(batch[position]))
    /\ position' = position + 1
    /\ UNCHANGED <<batch, http, single>>
    /\ UNCHANGED exceptRpc

\* One round of "for message in batch" on a notification.
HandleNotification ==
    /\ http = "handling"
    /\ position <= Len(batch)
    /\ batch[position].kind = "notification"
    /\ position' = position + 1
    /\ UNCHANGED <<batch, responses, http, single>>
    /\ UNCHANGED exceptRpc

\* return JSONResponse(content=[r.model_dump() for r in responses])
ReturnBatch ==
    /\ http = "handling"
    /\ position > Len(batch)
    /\ http' = "returned"
    /\ UNCHANGED <<batch, position, responses, single>>
    /\ UNCHANGED exceptRpc

RpcNext == PostBatch \/ PostSingle \/ HandleRequest \/ HandleNotification \/ ReturnBatch

(***************************************************************************)
(* The stdio transport: mcp/transports/stdio.py                            *)
(***************************************************************************)

INTERNAL_ERROR == -32603

MaxLines == 2

\* The request of a line that parses as a request, and the array a line can
\* hold: a batch of that one request.
LineRequest == RequestMessage("a", "ping", None)

ArrayLine == [NoBody EXCEPT !.shape = "array"]

BlankLine == [NoBody EXCEPT !.shape = "blank"]

\* What stdin.readline can return before end-of-file.
StdinLines == SingleBodies \cup {ArrayLine, BlankLine}

\* StdioTransport._handle_message: what it writes to stdout. Only
\* json.JSONDecodeError is answered with PARSE_ERROR; parse_message on a
\* list, and every other exception, is answered with INTERNAL_ERROR; a message
\* that is no request and no notification is logged to stderr.
_handle_message(data, type) ==
    CASE data.shape = "text" -> <<create_error_response(None, PARSE_ERROR)>>
      [] data.shape = "array" -> <<create_error_response(None, INTERNAL_ERROR)>>
      [] type = "ValueError" -> <<create_error_response(None, INTERNAL_ERROR)>>
      [] type = "request" -> <<_handle_request(LineRequest)>>
      [] OTHER -> <<>>

StdioInit ==
    /\ running = FALSE
    /\ reader_task = "none"
    /\ run_pc = "created"
    /\ lines_read = 0
    /\ last_line = NoBody
    /\ written = <<>>

StdioIdle == StdioInit

\* StdioTransport.stop: cancels the reader and shuts the executor down; a
\* readline still blocked in the worker thread has to return first.
stop(reader) ==
    /\ running' = FALSE
    /\ reader_task' = IF reader = "reading" THEN "cancelled" ELSE reader
    /\ run_pc' = IF reader = "reading" THEN "shutdown" ELSE "returned"

\* StdioServer.run up to its loop: transport.start().
StdioStart ==
    /\ run_pc = "created"
    /\ running' = TRUE
    /\ reader_task' = "reading"
    /\ run_pc' = "check"
    /\ UNCHANGED <<lines_read, last_line, written>>
    /\ UNCHANGED exceptStdio

\* while self.transport.running: ... ; past the loop the finally clause
\* calls stop, which returns at once when the transport is not running.
RunChecks ==
    /\ run_pc = "check"
    /\ run_pc' = IF running THEN "sleep" ELSE "returned"
    /\ UNCHANGED <<running, reader_task, lines_read, last_line, written>>
    /\ UNCHANGED exceptStdio

\* await asyncio.sleep(0.1) returns.
RunWakes ==
    /\ run_pc = "sleep"
    /\ run_pc' = "check"
    /\ UNCHANGED <<running, reader_task, lines_read, last_line, written>>
    /\ UNCHANGED exceptStdio

\* The sleep is interrupted (KeyboardInterrupt, cancellation): the finally
\* clause calls stop.
Interrupt ==
    /\ run_pc = "sleep"
    /\ stop(reader_task)
    /\ UNCHANGED <<lines_read, last_line, written>>
    /\ UNCHANGED exceptStdio

\* executor.shutdown(wait=True) returns once the blocked readline has.
ReadlineReturns ==
    /\ run_pc = "shutdown"
    /\ run_pc' = "returned"
    /\ UNCHANGED <<running, reader_task, lines_read, last_line, written>>
    /\ UNCHANGED exceptStdio

\* One round of _read_stdin's loop on a line: a blank line is skipped, any
\* other is handled.
ReadLine ==
    /\ reader_task = "reading"
    /\ running
    /\ lines_read < MaxLines
    /\ \E line \in StdinLines :
          /\ last_line' = line
          /\ written' = IF line.shape = "blank" THEN <<>>
                        ELSE _handle_message(line, parse_message(line))
    /\ lines_read' = lines_read + 1
    /\ UNCHANGED <<running, reader_task, run_pc>>
    /\ UNCHANGED exceptStdio

\* readline returns "": the loop is left with break.
ReadEOF ==
    /\ reader_task = "reading"
    /\ running
    /\ reader_task' = "done"
    /\ UNCHANGED <<running, run_pc, lines_read, last_line, written>>
    /\ UNCHANGED exceptStdio

StdioNext ==
    StdioStart \/ RunChecks \/ RunWakes \/ Interrupt \/ ReadlineReturns \/ ReadLine \/ ReadEOF

(***************************************************************************)
(* Properties of the JSON-RPC endpoint                                     *)
(***************************************************************************)

\* The tools/call requests whose execution fails: the handler raises or the
\* registry reports the failure.
FailingTools == {"raises", "raises_empty", "not_found", "invalid_arguments"}

\* The error message of a failing execution.
FailureMessage(tool) ==
    CASE tool = "not_found" -> "Tool not found"
      [] tool = "invalid_arguments" -> "Argument validation failed"
      [] OTHER -> Handler(tool).message

\* C15: a tools/call whose handler raises or whose execution the registry
\* reports as failed is answered with a success response that carries the
\* request's id, isError = true and one text item with the error message
\* (some text when the message is empty); it is no error response and the
\* loop goes on.
C15_FailedCallIsErrorResult ==
    [][(/\ http = "handling"
        /\ position <= Len(batch)
        /\ batch[position].method = "tools/call"
        /\ batch[position].tool \in FailingTools)
       => /\ http' = "handling"
          /\ position' = position + 1
          /\ Len(responses') = Len(responses) + 1
          /\ LET r == responses'[Len(responses')] IN
             /\ r.kind = "result"
             /\ r.id = batch[position].id
             /\ r.isError
             /\ Len(r.content) = 1
             /\ r.content[1].type = "text"
             /\ r.content[1].text # ""
             /\ FailureMessage(batch[position].tool) # ""
                   => r.content[1].text = FailureMessage(batch[position].tool)]_vars

\* A batch was answered in which a handler raised and another tool was not
\* found: both answers are isError results.
C15_Witness ==
    /\ http = "returned"
    /\ \E i \in 1..Len(batch) : batch[i].tool = "raises"
    /\ \E i \in 1..Len(batch) : batch[i].tool = "not_found"
    /\ \E i \in 1..Len(responses) :
          responses[i].isError /\ responses[i].content = <<TextItem("boom")>>
    /\ \A i \in 1..Len(responses) : responses[i].kind = "result"

\* C21: a tools/call that names a tool the registry does not hold is
\* answered with an error response of code -32001.
C21_UnknownToolError ==
    [][(/\ http = "handling"
        /\ position <= Len(batch)
        /\ batch[position].method = "tools/call"
        /\ batch[position].tool = "not_found")
       => /\ Len(responses') = Len(responses) + 1
          /\ responses'[Len(responses')].kind = "error"
          /\ responses'[Len(responses')].code = MCP_TOOL_NOT_FOUND]_vars

\* The object is one of the four JSON-RPC 2.0 messages.
IsMessage(data) ==
    /\ data.jsonrpc = "2.0"
    /\ \/ data.has_id /\ (data.has_method \/ data.has_result \/ data.has_error)
       \/ ~data.has_id /\ data.has_method

\* C22: a body that is JSON but no JSON-RPC 2.0 message is answered with
\* error -32600, and -32700 answers only a body that is no JSON.
C22_InvalidRequestCode ==
    http = "answered" =>
        /\ (single.shape = "object" /\ ~IsMessage(single)) =>
               (Len(responses) = 1 /\ responses[1].code = INVALID_REQUEST)
        /\ \A i \in 1..Len(responses) :
               responses[i].code = PARSE_ERROR => single.shape = "text"

\* C23: a request of a method the server does not know is answered with
\* one error response of code -32601 that carries the request's id; the
\* tool registry, the configuration, tools_version and the subscriber set
\* stay as they are.
C23_MethodNotFound ==
    [][(/\ http = "handling"
        /\ position <= Len(batch)
        /\ batch[position].kind = "request"
        /\ batch[position].method \notin {"initialize", "ping", "tools/list", "tools/call"})
       => /\ responses' = Append(responses,
                                  create_error_response(batch[position].id, METHOD_NOT_FOUND))
          /\ UNCHANGED <<tool_names, registry, persisted, config_cache, tools_version,
                         subscribers>>]_vars

\* A batch with a request of an unknown method between two pings was
\* answered: the second of three responses is the -32601 error.
C23_Witness ==
    /\ http = "returned"
    /\ Len(batch) = 3
    /\ batch[2].kind = "request" /\ batch[2].method = "resources/list"
    /\ Len(responses) = 3
    /\ responses[2].code = METHOD_NOT_FOUND
    /\ responses[2].id = batch[2].id
    /\ responses[1].kind = "result"

\* The ids of the requests among the first n messages, in order.
RECURSIVE IdsOfRequests(_, _)
IdsOfRequests(body, n) ==
    IF n = 0 THEN <<>>
    ELSE IF body[n].kind = "request"
    THEN Append(IdsOfRequests(body, n - 1), body[n].id)
    ELSE IdsOfRequests(body, n - 1)

\* C16: the answer to a batch of valid requests and notifications holds one
\* response per request, in the order of the requests, each with its
\* request's id, and nothing for a notification.
C16_BatchResponses ==
    /\ http = "handling" =>
          [i \in 1..Len(responses) |-> responses[i].id] = IdsOfRequests(batch, position - 1)
    /\ http = "returned" =>
          /\ position = Len(batch) + 1
          /\ [i \in 1..Len(responses) |-> responses[i].id] = IdsOfRequests(batch, Len(batch))

\* A batch of two requests with different ids around a notification was
\* answered with two responses.
C16_Witness ==
    /\ http = "returned"
    /\ Len(batch) = 3
    /\ batch[1].kind = "request" /\ batch[1].id = "b"
    /\ batch[2].kind = "notification"
    /\ batch[3].kind = "request" /\ batch[3].id = "a"
    /\ Len(responses) = 2

\* An array one of whose elements is no request and no notification.
HasInvalidElement(body) ==
    \E i \in 1..Len(body) : body[i].kind \notin {"request", "notification"}

\* C37: a batch one of whose elements is no valid request or notification is
\* answered with one error response with a null id, and none of its elements
\* is handled: the loop over the batch is never entered.
C37_InvalidBatchRejected ==
    HasInvalidElement(batch) =>
        /\ http = "parse_error"
        /\ position = 0
        /\ Len(responses) = 1
        /\ responses[1].kind = "error"
        /\ responses[1].id = None

\* A batch of a tools/call request, a notification and an invalid element
\* was answered.
C37_Witness ==
    /\ http = "parse_error"
    /\ Len(batch) = 3
    /\ batch[1].kind = "request" /\ batch[1].method = "tools/call"
    /\ batch[2].kind = "notification"
    /\ batch[3].kind = "invalid"
    /\ responses = <<create_error_response(None, PARSE_ERROR)>>

\* What handle_jsonrpc answers to the body a line of stdin holds.
HttpOutcome(line) ==
    IF line.shape = "array" THEN <<_handle_request(LineRequest)>>
    ELSE SingleAnswer(line, parse_message(line))

\* C35: for every line of stdin that holds one JSON-RPC message the stdio
\* transport writes what the HTTP endpoint answers to that message (the same
\* result or error code with the same id, nothing for a notification), and a
\* line that holds an array is answered as the batch it holds.
C35_StdioAsHttp ==
    last_line \notin {NoBody, BlankLine} => written = HttpOutcome(last_line)

\* C36: once stdin has reached end-of-file and the read loop has ended, the
\* transport is stopped and StdioServer.run returns.
C36_EofShutsDown ==
    (reader_task = "done") ~> (run_pc = "returned" /\ ~running)

(***************************************************************************)
(* Properties of the configuration authority and its tools                 *)
(***************************************************************************)

\* The configuration in memory: the cached document, or the persisted one
\* while nothing has been loaded.
EffectiveDoc == IF config_cache.loaded THEN config_cache.doc ELSE persisted

\* C2: a switch_provider or reset_config call whose confirm is absent or
\* false leaves the configuration as it was, in memory and persisted, and
\* sends no notification, whatever its other arguments are.
C2_UnconfirmedNoEffect ==
    [][(/\ lastOp'.kind \in {"switch_provider", "reset_config"}
        /\ lastOp'.args.confirm # "true")
       => (/\ persisted' = persisted
           /\ EffectiveDoc' = EffectiveDoc
           /\ sent' = sent
           /\ lastOp'.events = <<>>)]_vars

\* An unconfirmed switch to another provider, asked for after a mutation
\* was persisted and notified, has answered confirmation_required.
C2_Witness ==
    /\ lastOp.kind = "switch_provider"
    /\ lastOp.args.confirm = "false"
    /\ lastOp.args.provider = "anthropic"
    /\ lastOp.status = "confirmation_required"
    /\ EffectiveDoc.active = "openai"
    /\ sent = 1

MutationKinds == {"set_provider_parameter", "switch_active_provider", "reset_to_defaults"}

\* C3: in Set-parameter, Switch-active and Reset every notification comes
\* after a successful save and finds the persisted document equal to the
\* one in memory; an operation that fails sends none.
C3_PersistThenNotify ==
    lastOp.kind \in MutationKinds =>
        /\ \A i \in 1..Len(lastOp.events) :
              lastOp.events[i] \in {"notify", "notify_unsaved"} =>
                  /\ lastOp.events[i] = "notify"
                  /\ \E j \in 1..(i - 1) : lastOp.events[j] = "save_ok"
        /\ ~lastOp.ok => \A i \in 1..Len(lastOp.events) :
                             lastOp.events[i] \notin {"notify", "notify_unsaved"}
        /\ lastOp.ok => lastOp.events = <<"save_ok", "notify">>

\* A Set-parameter whose save failed after an earlier one was saved and
\* notified: the document in memory is ahead of the persisted one and only
\* the first was notified.
C3_Witness ==
    /\ lastOp.kind = "set_provider_parameter"
    /\ ~lastOp.ok
    /\ lastOp.events = <<"save_failed">>
    /\ config_cache.doc # persisted
    /\ sent = 1

\* The method each mutation notifies with.
MethodOf(kind) ==
    CASE kind = "set_provider_parameter" -> "configuration/changed"
      [] kind = "switch_active_provider" -> "configuration/provider_switched"
      [] kind = "reset_to_defaults" -> "configuration/reset"

\* C13: a successful Set-parameter, Switch-active or Reset broadcasts exactly
\* one notification, of its own method; a switch_provider or reset_config
\* tool invocation that answers success broadcasts exactly one notification.
C13_OneNotificationPerMutation ==
    /\ (lastOp.kind \in MutationKinds /\ lastOp.ok) => notified = <<MethodOf(lastOp.kind)>>
    /\ (lastOp.kind \in {"switch_provider", "reset_config"} /\ lastOp.status = "success")
           => /\ Len(notified) = 1
              /\ notified[1] \in ConfigMethods

\* The value satisfies the declaration c of its parameter: a number where a
\* float or an integer is declared, whole for an integer, within the range.
SatisfiesConstraint(value, c) ==
    /\ c.type \in {"float", "integer"} => value.k = "num"
    /\ c.type = "integer" => value.n % 10 = 0
    /\ c.hasRange => (value.n >= c.min_value /\ value.n <= c.max_value)

\* Every value the document holds for a parameter of the provider's schema
\* satisfies the parameter's declaration.
DocSatisfiesSchemas(doc) ==
    \A p \in get_available_providers :
        \A x \in DOMAIN get_model_schema(p, ModelOf(p)) :
            doc.models[p][x] \notin {Absent, NoneVal}
                => SatisfiesConstraint(doc.models[p][x], get_model_schema(p, ModelOf(p))[x])

\* C33: in every reachable state each stored parameter value satisfies its
\* declared constraint, in memory and on disk; a set_provider_parameter
\* that was rejected has changed neither.
C33_StoredValuesSatisfy ==
    /\ DocSatisfiesSchemas(config_cache.doc)
    /\ DocSatisfiesSchemas(persisted)

C38_SwitchErrorNoEffect ==
    [][(/\ opCount' = opCount + 1
        /\ lastOp'.kind = "switch_provider"
        /\ lastOp'.status = "error")
       => (/\ EffectiveDoc'.active = EffectiveDoc.active
           /\ sent' = sent
           /\ \A i \in 1..Len(lastOp'.events) : lastOp'.events[i] # "notify")]_vars

\* C39: a Set-parameter, Switch-active or Reset whose save fails reports
\* the failure and leaves the in-memory configuration as it was before the
\* operation and equal to the persisted document.
C39_FailedSaveNoEffect ==
    [][(/\ opCount' = opCount + 1
        /\ lastOp'.kind \in MutationKinds
        /\ \E i \in 1..Len(lastOp'.events) : lastOp'.events[i] = "save_failed")
       => (/\ ~lastOp'.ok
           /\ EffectiveDoc' = EffectiveDoc
           /\ EffectiveDoc' = persisted')]_vars

\* The providers a reset_config with arguments a is about.
ProvidersOfReset(a, active) ==
    IF a.provider = "all" THEN get_available_providers
    ELSE IF a.provider = None THEN {active}
    ELSE {a.provider}

\* C34: after a successful confirmed reset_config without parameter names,
\* every parameter of the schema of each provider it was about holds its
\* default (or no value, which reads as the default).
C34_ResetRestoresDefaults ==
    [][(/\ opCount' = opCount + 1
        /\ lastOp'.kind = "reset_config"
        /\ lastOp'.args.confirm = "true"
        /\ lastOp'.args.parameters = <<>>
        /\ lastOp'.status = "success")
       => \A p \in ProvidersOfReset(lastOp'.args, EffectiveDoc.active) :
             \A x \in DOMAIN get_model_schema(p, ModelOf(p)) :
                 EffectiveDoc'.models[p][x]
                     \in {get_model_schema(p, ModelOf(p))[x].default, Absent}]_vars

\* What a caller of get_active_provider_config finds under key x.
ReadActive(x) ==
    IF x \in DOMAIN get_active_provider_config(ServerState).config
    THEN get_active_provider_config(ServerState).config[x]
    ELSE Absent

\* C4: once set_provider_parameter(provider, P, V) has succeeded for the
\* active provider, get_active_provider_config, the current_value of
\* get_parameter_constraints and show_current_config all report P = V.
C4_ReadYourWrite ==
    (/\ lastOp.kind = "set_provider_parameter"
     /\ lastOp.ok
     /\ lastOp.args.provider = EffectiveDoc.active)
    => /\ ReadActive(lastOp.args.param) = lastOp.args.value
       /\ get_parameter_constraints(ServerState, lastOp.args.provider)
              .constraints[lastOp.args.param].current_value = lastOp.args.value
       /\ ShowConfigTool(ServerState).parameters[lastOp.args.param] = lastOp.args.value

\* The largest temperature any schema of the active provider allows.
MaxTemperature(p) == get_model_schema(p, ModelOf(p)).temperature.max_value

\* C5: an ai_configure request for a temperature above the active
\* provider's maximum answers status "error" with isError = true, changes
\* no stored value and sends no notification.
C5_AboveMaxRejected ==
    [][(/\ lastOp'.kind = "ai_configure"
        /\ lastOp'.args.shape = "request"
        /\ lastOp'.args.value.n > MaxTemperature(EffectiveDoc.active))
       => (/\ lastOp'.status = "error"
           /\ lastOp'.isError
           /\ persisted' = persisted
           /\ EffectiveDoc' = EffectiveDoc
           /\ sent' = sent)]_vars

(***************************************************************************)
(* Properties of the stream merger                                         *)
(***************************************************************************)

EmittedIds == { emitted[i].id : i \in 1..Len(emitted) }

\* C7: with provider openai or openrouter, a first fragment with an id and a
\* name, then fragments that carry nothing but argument text, then such a
\* fragment with a non-null finish_reason, yield exactly one completed call
\* with that id, that name and the arguments concatenated in order, and
\* leave the scratch map empty.
C7_FragmentedCall ==
    (provider \in {"openai", "openrouter"} /\ scenario.phase = "closed") =>
        /\ emitted = <<[id |-> scenario.id, name |-> scenario.name,
                        arguments |-> scenario.args]>>
        /\ scratch = <<>>

\* A fragmented call of three fragments, each carrying argument text, has
\* been merged and closed.
C7_Witness ==
    /\ provider = "openrouter"
    /\ scenario.phase = "closed"
    /\ scenario.id = "call_1"
    /\ scenario.args = "abc"
    /\ Len(emitted) = 1

\* C25: every CompletedToolCall emitted by merge_tool_chunks or by
\* finalize_remaining_calls has a non-empty name, "unknown_function" when no
\* fragment of the turn carried a name, and its arguments are a string.
C25_NamedCalls ==
    \A i \in 1..Len(emitted) :
        /\ emitted[i].name # ""
        /\ ~namesFed => emitted[i].name = "unknown_function"
        /\ emitted[i].arguments \in STRING

\* A turn without any name fragment in which the merger emitted a call on a
\* terminal fragment and the finalizer emitted another, one of them with
\* empty arguments.
C25_Witness ==
    /\ mphase = "finalized"
    /\ ~namesFed
    /\ Len(emitted) = 2
    /\ emitted[1].name = "unknown_function"
    /\ emitted[2].name = "unknown_function"
    /\ \E i \in 1..2 : emitted[i].arguments = ""

\* C29: with provider gemini every fragment passed to merge_tool_chunks, a
\* fragment without id and index included, is emitted as a completed call by
\* that same call, and no entry stays in the scratch map.
C29_GeminiOneShot ==
    [][(provider = "gemini" /\ fedCount' > fedCount)
       => (/\ Len(emitted') = Len(emitted) + (fedCount' - fedCount)
           /\ scratch' = <<>>)]_vars

\* C30: for a stream whose first fragment carries an id and a name and whose
\* later fragments carry argument text only, the last one with the finish
\* reason, the OpenAI and OpenRouter adapters yield one tool_calls list,
\* once, holding the one call the stream merger emits: that id, that name
\* and the argument fragments concatenated in order.
C30_AdapterAssembles ==
    (provider \in {"openai", "openrouter"} /\ scenario.phase = "closed") =>
        /\ assembled.yielded = <<emitted>>
        /\ emitted = <<ToolCallDict(scenario.id, scenario.name, scenario.args)>>

\* C8: at the end of a turn (after finalize_remaining_calls) no two emitted
\* calls carry the same id, the number of emitted calls is the number of
\* distinct key groups observed, and the scratch map is empty.
C8_EachCallOnce ==
    mphase = "finalized" =>
        /\ Cardinality(EmittedIds) = Len(emitted)
        /\ Len(emitted) = Cardinality(keysSeen)
        /\ scratch = <<>>

(***************************************************************************)
(* Properties of the chat turn                                             *)
(***************************************************************************)

RECURSIVE StatusesOf(_, _)
\* The statuses of the frames sent for request rid, in order.
StatusesOf(fs, rid) ==
    IF fs = <<>> THEN <<>>
    ELSE IF Head(fs).request_id = rid THEN <<Head(fs).status>> \o StatusesOf(Tail(fs), rid)
    ELSE StatusesOf(Tail(fs), rid)

Terminal == {"complete", "error"}

\* processing, then chunks, then at most one terminal frame at the end.
WellFormed(st) ==
    /\ st # <<>>
    /\ st[1] = "processing"
    /\ \A i \in 2..Len(st) : st[i] \in {"chunk"} \cup Terminal
    /\ \A i \in 1..(Len(st) - 1) : st[i] \notin Terminal

\* C1: the frames of every chat request are one processing frame, then
\* chunk frames, then exactly one terminal frame (complete or error) once
\* the turn is over, and nothing after it.
C1_FrameContract ==
    \A rid \in 1..request_id :
        /\ WellFormed(StatusesOf(frames, rid))
        /\ (rid < request_id \/ turn = "done") =>
               StatusesOf(frames, rid)[Len(StatusesOf(frames, rid))] \in Terminal

\* The messages of the chat request: the user's text.
OriginalMessages == <<[role |-> "user", tool_call_id |-> None, tool_calls |-> <<>>]>>

\* The continuation's messages for the tool calls: the original ones, the
\* assistant message carrying the calls, one tool message per call in order.
ExpectedFollowUp(calls) ==
    OriginalMessages
    \o <<[role |-> "assistant", tool_call_id |-> None, tool_calls |-> calls]>>
    \o [i \in 1..Len(calls) |-> [role |-> "tool", tool_call_id |-> calls[i],
                                 tool_calls |-> <<>>]]

\* C9: a turn in which the adapter returned N tool calls makes a
\* continuation request whose messages are the original ones, the assistant
\* message with the N calls, and N tool messages with the calls' ids in order.
C9_ContinuationMessages ==
    (turn = "done" /\ returned_calls # <<>>) =>
        follow_up_request = ExpectedFollowUp(returned_calls)

\* C10: a turn whose adapter stream ended with the error element ends with
\* exactly one error frame and no complete frame, after the chunk frames
\* already sent.
C10_ErrorElementFrame ==
    (turn = "done" /\ outcome.kind = "error_element") =>
        /\ WellFormed(StatusesOf(frames, request_id))
        /\ StatusesOf(frames, request_id)[Len(StatusesOf(frames, request_id))] = "error"
        /\ \A i \in 1..Len(StatusesOf(frames, request_id)) :
              StatusesOf(frames, request_id)[i] # "complete"

AdapterCalls ==
    (IF turn \in {"streaming", "done"} /\ outcome.kind # "no_provider" THEN 1 ELSE 0)
    + (IF follow_up_request # <<>> THEN 1 ELSE 0)

ExecutedCalls ==
    { follow_up_request[i].tool_call_id :
        i \in { k \in 1..Len(follow_up_request) : follow_up_request[k].role = "tool" } }

\* C28: when the turn is over, every tool call the first adapter stream
\* produced has been executed.
C28_EveryCallExecuted ==
    turn = "done" => \A i \in 1..Len(returned_calls) : returned_calls[i] \in ExecutedCalls

(***************************************************************************)
(* Properties of the notification broadcasts                               *)
(***************************************************************************)

\* Broadcast b has come to its end in this step, by return or by exception.
Ends(b) == tasks[b].pc = "running" /\ tasks'[b].pc \in {"returned", "raised"}

\* C11: when a broadcast ends, no subscriber whose send failed in it is in
\* the subscriber set any more, and every subscriber whose send succeeded
\* in it and that was in the set is still there.
C11_FailedSubscriberRemoved ==
    [][\A b \in 1..MaxBroadcasts :
          Ends(b) => /\ tasks'[b].disconnected \cap subscribers' = {}
                     /\ (tasks'[b].delivered \cap subscribers) \subseteq subscribers']_vars

\* C12: each subscriber receives the notifications of the broadcasts it
\* receives in the order the broadcasts were invoked.
C12_DeliveryOrder ==
    \A w \in Sockets :
        \A i \in 1..Len(received[w]) : \A j \in 1..Len(received[w]) :
            i < j => received[w][i].b < received[w][j].b

\* The broadcasts of notifications/tools/list_changed invoked so far.
ToolBroadcasts == {b \in 1..MaxBroadcasts : tasks[b].method = TOOLS_LIST_CHANGED}

\* C14: each change of the tool list raises tools_version by one and
\* broadcasts one list_changed notification carrying the new value, so the
\* versions broadcast are 1..tools_version, each once; the versions one
\* subscriber receives are strictly increasing.
C14_VersionedToolChanges ==
    /\ Cardinality(ToolBroadcasts) = tools_version
    /\ {tasks[b].version : b \in ToolBroadcasts} = 1..tools_version
    /\ \A w \in Sockets :
          \A i \in 1..Len(received[w]) : \A j \in 1..Len(received[w]) :
              (/\ i < j
               /\ received[w][i].method = TOOLS_LIST_CHANGED
               /\ received[w][j].method = TOOLS_LIST_CHANGED)
              => received[w][i].version < received[w][j].version

(***************************************************************************)
(* Properties of the tool registry's validation                            *)
(***************************************************************************)

\* The JSON type a parameter declares, for a value other than null.
OfDeclaredType(type, value) ==
    CASE type = "string" -> value.t = "str"
      [] type = "integer" -> value.t = "int"
      [] type = "number" -> value.t \in {"int", "float"}
      [] type = "boolean" -> value.t = "bool"
      [] type = "array" -> value.t = "list"
      [] OTHER -> value.t = "dict"

\* The value satisfies the declaration: null only for a parameter that is
\* not required, else of the declared type and within enum, minimum,
\* maximum, pattern and the type of the array items.
Satisfies(param, value) ==
    IF value = Null THEN ~param.required
    ELSE /\ OfDeclaredType(param.type, value)
         /\ param.enum # <<>> => \E i \in 1..Len(param.enum) : param.enum[i] = value
         /\ \A m \in param.minimum : value.n >= m
         /\ \A m \in param.maximum : value.n <= m
         /\ \A pt \in param.pattern : Contains(value.s, pt)
         /\ \A ty \in param.items : \A i \in 1..Len(value.items) :
               value.items[i] = Null \/ OfDeclaredType(ty, value.items[i])

ArgumentsSatisfy(param, args) ==
    /\ param.required => args.p # Missing
    /\ ~args.q
    /\ args.p # Missing => Satisfies(param, args.p)

\* C32: execute_tool invokes the handler only when the tool and its handler
\* are registered and the arguments pass validation; in every other case
\* the handler is not invoked and the answer is a failure.
C32_HandlerOnlyOnValid ==
    executions > 0 =>
        IF /\ entry_of_tool.registered
           /\ entry_of_tool.has_handler
           /\ ArgumentsSatisfy(entry_of_tool.param, call_arguments)
        THEN TRUE
        ELSE ~last_execution.invoked /\ ~last_execution.success

\* C26: once the notifications endpoint handler of a closed channel has
\* ended, on a disconnect seen by receive or on a failed keepalive send, the
\* channel's socket is no longer in the subscriber set.
C26_EndedHandlerUnsubscribed == ended \cap subscribers = {}

\* C31: a broadcast during which another task adds or removes a subscriber
\* still completes: it raises nothing into the operation that invoked it,
\* and when it has returned, every subscriber of the set it began with that
\* is still subscribed and connected has been sent the notification.
C31_BroadcastCompletes ==
    \A b \in 1..MaxBroadcasts :
        /\ tasks[b].pc # "raised"
        /\ tasks[b].pc = "returned" =>
               ((tasks[b].initial \cap subscribers) \ broken) \subseteq tasks[b].delivered

\* C19: once the client has disconnected, the turn reads no further chunk
\* of the adapter's stream, hands no further response of the router to the
\* gateway, takes no tool calls and makes no continuation request.
C19_DisconnectCancelsTurn ==
    [][~connected => /\ chunk_count' = chunk_count
                     /\ frames' = frames
                     /\ returned_calls' = returned_calls
                     /\ follow_up_request' = follow_up_request]_vars

(***************************************************************************)
(* Specifications                                                          *)
(***************************************************************************)

InitMerge == MergeInit /\ ListIdle /\ ConfigIdle /\ ChatIdle /\ BcastIdle /\ RpcIdle /\ AdapterIdle /\ ValidateIdle /\ StdioIdle

SpecMerge == InitMerge /\ [][MergeNext]_vars

InitList == ListInit /\ MergeIdle /\ ConfigIdle /\ ChatIdle /\ BcastIdle /\ RpcIdle /\ AdapterIdle /\ ValidateIdle /\ StdioIdle

SpecList == InitList /\ [][ListNext]_vars

InitConfig == ConfigInit /\ MergeIdle /\ ListIdle /\ ChatIdle /\ BcastIdle /\ RpcIdle /\ AdapterIdle /\ ValidateIdle /\ StdioIdle

SpecConfig == InitConfig /\ [][ConfigNext]_vars

InitChat == ChatInit /\ MergeIdle /\ ListIdle /\ ConfigIdle /\ BcastIdle /\ RpcIdle /\ AdapterIdle /\ ValidateIdle /\ StdioIdle

SpecChat == InitChat /\ [][ChatNext]_vars

InitBroadcast == BcastInit /\ MergeIdle /\ ListIdle /\ ConfigIdle /\ ChatIdle /\ RpcIdle /\ AdapterIdle /\ ValidateIdle /\ StdioIdle

SpecBroadcast == InitBroadcast /\ [][BcastNext]_vars

InitRpc == RpcInit /\ ListIdle /\ ConfigIdle /\ ChatIdle /\ BcastIdle /\ MergeIdle /\ AdapterIdle /\ ValidateIdle /\ StdioIdle

SpecRpc == InitRpc /\ [][RpcNext]_vars

InitAdapter == AdapterInit /\ ListIdle /\ ConfigIdle /\ ChatIdle /\ BcastIdle /\ RpcIdle /\ MergeIdle /\ ValidateIdle /\ StdioIdle

SpecAdapter == InitAdapter /\ [][AdapterNext]_vars

InitValidate == ValidateInit /\ ListIdle /\ ConfigIdle /\ ChatIdle /\ BcastIdle /\ RpcIdle /\ AdapterIdle /\ MergeIdle /\ StdioIdle

SpecValidate == InitValidate /\ [][ValidateNext]_vars

InitStdio == StdioInit /\ ListIdle /\ ConfigIdle /\ ChatIdle /\ BcastIdle /\ RpcIdle /\ AdapterIdle /\ ValidateIdle /\ MergeIdle

SpecStdio == InitStdio /\ [][StdioNext]_vars

\* The event loop runs every task that is ready and every sleep ends; what
\* stdin delivers and whether the process is interrupted is up to its
\* environment.
SpecStdioFair ==
    /\ SpecStdio
    /\ WF_vars(StdioStart)
    /\ WF_vars(RunChecks)
    /\ WF_vars(RunWakes)

====
